---- MODULE Spec2Model ----
(***************************************************************************)
(* A model of the CubTEK coding-standard checker: the rule engine          *)
(* (NamingConventionRule, FunctionLengthRule), the rule registry and its   *)
(* configuration, the clang-tidy output adapter and the check              *)
(* orchestrator (CubtekChecker.checkDocument).                             *)
(*                                                                         *)
(* Text is a sequence of one-character strings; offsets are 0-based as in  *)
(* JavaScript, so the character at offset o is text[o + 1].                *)
(***************************************************************************)
EXTENDS Integers, Sequences, FiniteSets, TLC

(***************************************************************************)
(* Characters and the JavaScript character classes \w, \s, \d.             *)
(***************************************************************************)
Lower == {"a", "b", "c", "d", "e", "f", "g", "h", "i", "j", "k", "l", "m",
          "n", "o", "p", "q", "r", "s", "t", "u", "v", "w", "x", "y", "z"}

Upper == {"A", "B", "C", "D", "E", "F", "G", "H", "I", "J", "K", "L", "M",
          "N", "O", "P", "Q", "R", "S", "T", "U", "V", "W", "X", "Y", "Z"}

Digit == {"0", "1", "2", "3", "4", "5", "6", "7", "8", "9"}

WordChar == Lower \cup Upper \cup Digit \cup {"_"}

SpaceChar == {" ", "\n", "\t"}

NL == "\n"

(***************************************************************************)
(* A backtracking regular-expression matcher with JavaScript's priorities  *)
(* (leftmost start, alternatives left to right, greedy quantifiers longest *)
(* first, lazy ones shortest first).  A regular expression is a record     *)
(* tree; Match returns every way the expression matches from a state, in   *)
(* the order the backtracking engine tries them, so the head of the result *)
(* is the match RegExp.prototype.exec reports.  Quantifiers apply to       *)
(* character classes, which is all the patterns of the program need.       *)
(* Loops over a text are evaluated by halving the range: the recursion     *)
(* depth is logarithmic and the order of evaluation is the loop's.         *)
(***************************************************************************)
Eps == [t |-> "eps"]

Ch(S) == [t |-> "set", c |-> S]

NotCh(S) == [t |-> "nset", c |-> S]

WB == [t |-> "wb"]

Cat(a, b) == [t |-> "seq", a |-> a, b |-> b]

Alt(a, b) == [t |-> "alt", a |-> a, b |-> b]

Star(r) == [t |-> "star", r |-> r]

LazyStar(r) == [t |-> "lazy", r |-> r]

Plus(r) == Cat(r, Star(r))

LazyPlus(r) == Cat(r, LazyStar(r))

Opt(r) == Alt(r, Eps)

Cap(n, r) == [t |-> "cap", n |-> n, r |-> r]

RECURSIVE CatAll(_)
CatAll(rs) == IF Len(rs) = 1 THEN rs[1] ELSE Cat(rs[1], CatAll(Tail(rs)))

RECURSIVE AltAll(_)
AltAll(rs) == IF Len(rs) = 1 THEN rs[1] ELSE Alt(rs[1], AltAll(Tail(rs)))

RECURSIVE Lit(_)
Lit(s) == IF Len(s) = 1 THEN Ch({s[1]}) ELSE Cat(Ch({s[1]}), Lit(Tail(s)))

IsWordAt(text, o) == o >= 0 /\ o < Len(text) /\ text[o + 1] \in WordChar

\* \b : exactly one side of the offset is a word character
IsWordBoundary(text, o) == IsWordAt(text, o - 1) # IsWordAt(text, o)

\* does the character class cls accept the character at offset o
Accepts(cls, text, o) ==
  /\ o < Len(text)
  /\ IF cls.t = "set" THEN text[o + 1] \in cls.c ELSE text[o + 1] \notin cls.c

\* the number of consecutive characters from offset o that cls accepts
RunLength(cls, text, o) ==
  LET stops == {e \in o..Len(text) : ~Accepts(cls, text, e)}
  IN  (CHOOSE e \in stops : \A f \in stops : e <= f) - o

RECURSIVE Match(_, _, _), MatchAll(_, _, _)
Match(re, text, st) ==
  CASE re.t = "eps" -> <<st>>
    [] re.t = "set" ->
         IF st.pos < Len(text) /\ text[st.pos + 1] \in re.c
         THEN <<[st EXCEPT !.pos = @ + 1]>> ELSE <<>>
    [] re.t = "nset" ->
         IF st.pos < Len(text) /\ text[st.pos + 1] \notin re.c
         THEN <<[st EXCEPT !.pos = @ + 1]>> ELSE <<>>
    [] re.t = "wb" -> IF IsWordBoundary(text, st.pos) THEN <<st>> ELSE <<>>
    [] re.t = "seq" -> MatchAll(re.b, text, Match(re.a, text, st))
    [] re.t = "alt" -> Match(re.a, text, st) \o Match(re.b, text, st)
    [] re.t = "star" ->
         LET n == RunLength(re.r, text, st.pos)
         IN  [k \in 1..(n + 1) |-> [st EXCEPT !.pos = st.pos + n + 1 - k]]
    [] re.t = "lazy" ->
         LET n == RunLength(re.r, text, st.pos)
         IN  [k \in 1..(n + 1) |-> [st EXCEPT !.pos = st.pos + k - 1]]
    [] re.t = "cap" ->
         LET inner == Match(re.r, text, st)
         IN  [k \in 1..Len(inner) |->
                [inner[k] EXCEPT !.cap = (re.n :> <<st.pos, inner[k].pos>>) @@ @]]

MatchAll(re, text, sts) ==
  IF sts = <<>> THEN <<>>
  ELSE IF Len(sts) = 1 THEN Match(re, text, sts[1])
  ELSE LET mid == Len(sts) \div 2
       IN  MatchAll(re, text, SubSeq(sts, 1, mid))
           \o MatchAll(re, text, SubSeq(sts, mid + 1, Len(sts)))

NoMatch == [found |-> FALSE]

\* the match starting exactly at offset o, or NoMatch
MatchAt(re, text, o) ==
  LET ms == Match(re, text, [pos |-> o, cap |-> <<>>])
  IN  IF ms = <<>> THEN NoMatch
      ELSE [found |-> TRUE, index |-> o, end |-> ms[1].pos, cap |-> ms[1].cap]

\* RegExp.prototype.exec of a pattern whose lastIndex is `lastIndex`:
\* the leftmost match starting at or after lastIndex
RECURSIVE FirstMatch(_, _, _, _)
FirstMatch(re, text, lo, hi) ==
  IF lo > hi THEN NoMatch
  ELSE IF lo = hi THEN MatchAt(re, text, lo)
  ELSE LET mid == (lo + hi) \div 2
           left == FirstMatch(re, text, lo, mid)
       IN  IF left.found THEN left ELSE FirstMatch(re, text, mid + 1, hi)

Exec(re, text, lastIndex) == FirstMatch(re, text, lastIndex, Len(text))

\* the text of capture group n of a match (match[n])
Group(text, m, n) == SubSeq(text, m.cap[n][1] + 1, m.cap[n][2])

\* the whole matched text (match[0])
Whole(text, m) == SubSeq(text, m.index + 1, m.end)

(***************************************************************************)
(* String helpers (String.prototype.indexOf / includes / startsWith).      *)
(***************************************************************************)
IsAt(s, sub, o) ==
  /\ o + Len(sub) <= Len(s)
  /\ \A k \in 1..Len(sub) : s[o + k] = sub[k]

\* s.indexOf(sub, from): the first offset >= from where sub occurs, or -1
IndexOfFrom(s, sub, from) ==
  LET f == IF from < 0 THEN 0 ELSE from
      hits == {o \in f..Len(s) : IsAt(s, sub, o)}
  IN  IF hits = {} THEN -1 ELSE CHOOSE o \in hits : \A p \in hits : o <= p

IndexOf(s, sub) == IndexOfFrom(s, sub, 0)

Includes(s, sub) == IndexOf(s, sub) # -1

StartsWith(s, sub) == IsAt(s, sub, 0)

(***************************************************************************)
(* Decimal rendering of a number inside a template string.                 *)
(***************************************************************************)
DigitChar(d) == <<"0", "1", "2", "3", "4", "5", "6", "7", "8", "9">>[d + 1]

RECURSIVE NumToString(_)
NumToString(n) ==
  IF n < 0 THEN <<"-">> \o NumToString(0 - n)
  ELSE IF n < 10 THEN <<DigitChar(n)>>
  ELSE NumToString(n \div 10) \o <<DigitChar(n % 10)>>

\* parseInt of a non-empty string of decimal digits
DigitValue(c) == CHOOSE d \in 0..9 : DigitChar(d) = c

RECURSIVE ParseInt(_)
ParseInt(s) ==
  IF Len(s) = 1 THEN DigitValue(s[1])
  ELSE 10 * ParseInt(SubSeq(s, 1, Len(s) - 1)) + DigitValue(s[Len(s)])

(***************************************************************************)
(* vscode.DiagnosticSeverity, Position, Range and TextDocument.            *)
(***************************************************************************)
SevError == 0

SevWarning == 1

SevInformation == 2

SevHint == 3

Severities == {SevError, SevWarning, SevInformation, SevHint}

Position(line, character) == [line |-> line, character |-> character]

\* new vscode.Position throws on a negative line or character
PositionThrows(line, character) == line < 0 \/ character < 0

IsBeforeOrEqual(p, q) ==
  p.line < q.line \/ (p.line = q.line /\ p.character <= q.character)

\* new vscode.Range(start, end) swaps its arguments when start is after end
Range(start, end) ==
  IF IsBeforeOrEqual(start, end) THEN [start |-> start, end |-> end]
  ELSE [start |-> end, end |-> start]

\* position.translate(0, characterDelta)
Translate(p, characterDelta) == Position(p.line, p.character + characterDelta)

NewlineOffsets(text) == {o \in 0..(Len(text) - 1) : text[o + 1] = NL}

LineCount(text) == Cardinality(NewlineOffsets(text)) + 1

\* the offset of the first character of a line
LineStart(text, line) ==
  CHOOSE s \in {0} \cup {n + 1 : n \in NewlineOffsets(text)} :
    Cardinality({n \in NewlineOffsets(text) : n < s}) = line

\* the offset just past the last character of a line (its newline excluded)
LineEnd(text, line) ==
  LET after == {n \in NewlineOffsets(text) : n >= LineStart(text, line)}
  IN  IF after = {} THEN Len(text)
      ELSE CHOOSE n \in after : \A k \in after : n <= k

\* document.lineAt(line) throws outside 0 .. lineCount - 1
LineAtThrows(text, line) == line < 0 \/ line >= LineCount(text)

\* document.lineAt(line).text
LineText(text, line) ==
  SubSeq(text, LineStart(text, line) + 1, LineEnd(text, line))

\* document.positionAt(offset): the offset is clamped to the text
PositionAt(text, offset) ==
  LET o == IF offset < 0 THEN 0 ELSE IF offset > Len(text) THEN Len(text) ELSE offset
      line == Cardinality({n \in NewlineOffsets(text) : n < o})
  IN  Position(line, o - LineStart(text, line))

\* document.offsetAt(position) for a position inside the text
OffsetAt(text, p) ==
  LET line == IF p.line >= LineCount(text) THEN LineCount(text) - 1 ELSE p.line
      o == LineStart(text, line) + p.character
  IN  IF p.line >= LineCount(text) THEN Len(text)
      ELSE IF o > LineEnd(text, line) THEN LineEnd(text, line) ELSE o

\* text.split("\n")
Lines(text) == [k \in 1..LineCount(text) |-> LineText(text, k - 1)]

(***************************************************************************)
(* The pattern library (CPP_PATTERNS, NAMING_PATTERNS).                    *)
(***************************************************************************)
Spaces1 == Plus(Ch(SpaceChar))

Spaces0 == Star(Ch(SpaceChar))

Word1 == Plus(Ch(WordChar))

\* /\b(?:extern|static)?\s+(?:const\s+)?(?:unsigned\s+)?
\*  (?:int|char|float|double|bool|void|\w+_t)\s+(\w+)\s*(?:=|;|\[)/g
GLOBAL_VAR ==
  CatAll(<<WB,
           Opt(Alt(Lit(<<"e","x","t","e","r","n">>), Lit(<<"s","t","a","t","i","c">>))),
           Spaces1,
           Opt(Cat(Lit(<<"c","o","n","s","t">>), Spaces1)),
           Opt(Cat(Lit(<<"u","n","s","i","g","n","e","d">>), Spaces1)),
           AltAll(<<Lit(<<"i","n","t">>), Lit(<<"c","h","a","r">>),
                    Lit(<<"f","l","o","a","t">>), Lit(<<"d","o","u","b","l","e">>),
                    Lit(<<"b","o","o","l">>), Lit(<<"v","o","i","d">>),
                    Cat(Word1, Lit(<<"_","t">>))>>),
           Spaces1,
           Cap(1, Word1),
           Spaces0,
           Ch({"=", ";", "["})>>)

\* /\b(\w+)\s+(\w+)\s*\([^)]*\)\s*(?:const\s*)?\s*{/g
FUNCTION ==
  CatAll(<<WB, Cap(1, Word1), Spaces1, Cap(2, Word1), Spaces0,
           Ch({"("}), Star(NotCh({")"})), Ch({")"}), Spaces0,
           Opt(Cat(Lit(<<"c","o","n","s","t">>), Spaces0)),
           Spaces0, Ch({"{"})>>)

\* /^[a-z][a-zA-Z0-9]*$/
CAMEL_CASE(name) ==
  /\ Len(name) >= 1
  /\ name[1] \in Lower
  /\ \A k \in 2..Len(name) : name[k] \in Lower \cup Upper \cup Digit

\* a pattern that accepts no name
PASCAL_CASE_never(name) == FALSE

\* /^[A-Z][a-zA-Z0-9]*$/
PASCAL_CASE(name) ==
  /\ Len(name) >= 1
  /\ name[1] \in Upper
  /\ \A k \in 2..Len(name) : name[k] \in Lower \cup Upper \cup Digit

(***************************************************************************)
(* Rule base: a diagnostic of a local rule carries the rule's active       *)
(* severity, the source "CubTEK" and the rule id as its code.              *)
(***************************************************************************)
FUNC_001 == <<"C","U","B","T","E","K","-","F","U","N","C","-","0","0","1">>

NAME_001 == <<"C","U","B","T","E","K","-","N","A","M","E","-","0","0","1">>

SOURCE_CUBTEK == <<"C","u","b","T","E","K">>

SOURCE_CLANG_TIDY ==
  <<"C","u","b","T","E","K"," ","(","c","l","a","n","g","-","t","i","d","y",")">>

\* Rule.createDiagnostic
createDiagnostic(id, severity, range, message) ==
  [range |-> range, message |-> message, severity |-> severity,
   source |-> SOURCE_CUBTEK, code |-> id]

(***************************************************************************)
(* NamingConventionRule.                                                   *)
(***************************************************************************)
\* `Global variable "${varName}" should start with "g_" prefix`
GLOBAL_VAR_PREFIX(varName) ==
  <<"G","l","o","b","a","l"," ","v","a","r","i","a","b","l","e"," ","\"">>
  \o varName \o
  <<"\""," ","s","h","o","u","l","d"," ","s","t","a","r","t"," ","w","i","t","h",
    " ","\"","g","_","\""," ","p","r","e","f","i","x">>

\* `Function name "${functionName}" should be camelCase or PascalCase`
FUNCTION_NAMING(functionName) ==
  <<"F","u","n","c","t","i","o","n"," ","n","a","m","e"," ","\"">>
  \o functionName \o
  <<"\""," ","s","h","o","u","l","d"," ","b","e"," ","c","a","m","e","l","C","a",
    "s","e"," ","o","r"," ","P","a","s","c","a","l","C","a","s","e">>

\* the inner loop of isInsideFunction: what the characters lo .. hi of a
\* line add to braceCount
RECURSIVE LineBraces(_, _, _)
LineBraces(line, lo, hi) ==
  IF lo > hi THEN 0
  ELSE IF lo = hi
  THEN IF line[lo] = "{" THEN 1 ELSE IF line[lo] = "}" THEN -1 ELSE 0
  ELSE LET mid == (lo + hi) \div 2
       IN  LineBraces(line, lo, mid) + LineBraces(line, mid + 1, hi)

\* the outer loop of isInsideFunction: what lines[lo .. hi] add to braceCount
RECURSIVE BraceCountLines(_, _, _)
BraceCountLines(lines, lo, hi) ==
  IF lo > hi THEN 0
  ELSE IF lo = hi THEN LineBraces(lines[lo], 1, Len(lines[lo]))
  ELSE LET mid == (lo + hi) \div 2
       IN  BraceCountLines(lines, lo, mid) + BraceCountLines(lines, mid + 1, hi)

isInsideFunction(text, lineNumber) ==
  BraceCountLines(Lines(text), 1, lineNumber) > 0

\* the global-variable loop of NamingConventionRule.check, entered with the
\* pattern's lastIndex
RECURSIVE GlobalVarPass(_, _, _)
GlobalVarPass(text, lastIndex, severity) ==
  LET match == Exec(GLOBAL_VAR, text, lastIndex)
  IN  IF ~match.found THEN <<>>
      ELSE
        LET linePos == PositionAt(text, match.index).line
            lineText == LineText(text, linePos)
            varName == Group(text, match, 1)
            varPos == PositionAt(text,
                        match.index + IndexOf(Whole(text, match), varName))
            range == Range(varPos, Translate(varPos, Len(varName)))
            rest == GlobalVarPass(text, match.end, severity)
        IN  IF isInsideFunction(text, linePos) \/ Includes(lineText, <<"(">>)
            THEN rest
            ELSE IF ~StartsWith(varName, <<"g", "_">>)
            THEN <<createDiagnostic(NAME_001, severity, range,
                                    GLOBAL_VAR_PREFIX(varName))>> \o rest
            ELSE rest

\* the function-naming loop of NamingConventionRule.check
RECURSIVE FunctionNamePass(_, _, _)
FunctionNamePass(text, lastIndex, severity) ==
  LET match == Exec(FUNCTION, text, lastIndex)
  IN  IF ~match.found THEN <<>>
      ELSE
        LET functionName == Group(text, match, 2)
            functionPos == PositionAt(text,
                             match.index + IndexOf(Whole(text, match), functionName))
            range == Range(functionPos, Translate(functionPos, Len(functionName)))
            rest == FunctionNamePass(text, match.end, severity)
        IN  IF ~(CAMEL_CASE(functionName) \/ PASCAL_CASE(functionName))
            THEN <<createDiagnostic(NAME_001, severity, range,
                                    FUNCTION_NAMING(functionName))>> \o rest
            ELSE rest

NamingConventionRule_check(text, severity) ==
  GlobalVarPass(text, 0, severity) \o FunctionNamePass(text, 0, severity)

(***************************************************************************)
(* FunctionLengthRule.                                                     *)
(***************************************************************************)
maxLines == 50

\* `Function "${functionName}" is ${functionLines} lines long
\*  (maximum allowed is ${maxLines})`
FUNCTION_LENGTH(functionName, lineCount, maxAllowed) ==
  <<"F","u","n","c","t","i","o","n"," ","\"">> \o functionName \o
  <<"\""," ","i","s"," ">> \o NumToString(lineCount) \o
  <<" ","l","i","n","e","s"," ","l","o","n","g"," ","(","m","a","x","i","m","u","m",
    " ","a","l","l","o","w","e","d"," ","i","s"," ">> \o NumToString(maxAllowed) \o
  <<")">>

\* the null that findFunctionEnd returns when no closing brace matches
Null == [line |-> -1, character |-> -1]

\* faulty variant of ScanStep that returns at the first closing brace after an
\* opening one, whatever the count; the scan property must tell it from ScanStep
ScanStep_eager(text, i, s) ==
  IF s.returned # Null THEN s
  ELSE IF text[i + 1] = "{"
  THEN [s EXCEPT !.braceCount = @ + 1, !.foundFirstBrace = TRUE]
  ELSE IF text[i + 1] = "}"
  THEN IF s.foundFirstBrace
       THEN [s EXCEPT !.braceCount = @ - 1, !.returned = PositionAt(text, i)]
       ELSE [s EXCEPT !.braceCount = @ - 1]
  ELSE s

\* one iteration of the loop of findFunctionEnd, at offset i; s.returned is
\* the value returned so far (Null while the loop is still running)
ScanStep(text, i, s) ==
  IF s.returned # Null THEN s
  ELSE IF text[i + 1] = "{"
  THEN [s EXCEPT !.braceCount = @ + 1, !.foundFirstBrace = TRUE]
  ELSE IF text[i + 1] = "}"
  THEN IF s.foundFirstBrace /\ s.braceCount - 1 = 0
       THEN [s EXCEPT !.braceCount = @ - 1, !.returned = PositionAt(text, i)]
       ELSE [s EXCEPT !.braceCount = @ - 1]
  ELSE s

\* the iterations lo .. hi - 1 of the loop of findFunctionEnd
RECURSIVE ScanBraces(_, _, _, _)
ScanBraces(text, lo, hi, s) ==
  IF lo >= hi THEN s
  ELSE IF hi - lo = 1 THEN ScanStep(text, lo, s)
  ELSE LET mid == (lo + hi) \div 2
           left == ScanBraces(text, lo, mid, s)
       IN  IF left.returned # Null THEN left
           ELSE ScanBraces(text, mid, hi, left)

\* faulty variant of findFunctionEnd that takes the end of the text for the
\* end of a block that is never closed
findFunctionEnd_eof(text, startPos) ==
  LET end == ScanBraces(text, OffsetAt(text, startPos), Len(text),
                        [braceCount |-> 0, foundFirstBrace |-> FALSE,
                         returned |-> Null]).returned
  IN  IF end = Null THEN PositionAt(text, Len(text)) ELSE end

findFunctionEnd(text, startPos) ==
  ScanBraces(text, OffsetAt(text, startPos), Len(text),
             [braceCount |-> 0, foundFirstBrace |-> FALSE, returned |-> Null]
            ).returned

\* faulty variant of functionLines that leaves out the closing line; the
\* length properties must tell it from functionLines
functionLines_off(functionEndPos, functionPos) ==
  functionEndPos.line - functionPos.line

\* functionEndPos.line - functionPos.line + 1
functionLines(functionEndPos, functionPos) ==
  functionEndPos.line - functionPos.line + 1

\* the loop of FunctionLengthRule.check
RECURSIVE FunctionLengthPass(_, _, _)
FunctionLengthPass(text, lastIndex, severity) ==
  LET match == Exec(FUNCTION, text, lastIndex)
  IN  IF ~match.found THEN <<>>
      ELSE
        LET functionPos == PositionAt(text, match.index)
            functionName == Group(text, match, 2)
            functionEndPos == findFunctionEnd(text, functionPos)
            range == Range(functionPos, Translate(functionPos, Len(functionName)))
            rest == FunctionLengthPass(text, match.end, severity)
        IN  IF functionEndPos # Null
               /\ functionLines(functionEndPos, functionPos) > maxLines
            THEN <<createDiagnostic(FUNC_001, severity, range,
                     FUNCTION_LENGTH(functionName,
                                     functionLines(functionEndPos, functionPos),
                                     maxLines))>> \o rest
            ELSE rest

FunctionLengthRule_check(text, severity) == FunctionLengthPass(text, 0, severity)

(***************************************************************************)
(* The external-output adapter.                                            *)
(***************************************************************************)
AnyChar == NotCh({NL})

STR_warning == <<"w","a","r","n","i","n","g">>

STR_error == <<"e","r","r","o","r">>

STR_note == <<"n","o","t","e">>

STR_remark == <<"r","e","m","a","r","k">>

\* /(.+):(\d+):(\d+):\s+(warning|error):\s+(.+?)\s+\[(.+)\]/
CLANG_TIDY_OUTPUT ==
  CatAll(<<Cap(1, Plus(AnyChar)), Ch({":"}), Cap(2, Plus(Ch(Digit))), Ch({":"}),
           Cap(3, Plus(Ch(Digit))), Ch({":"}), Spaces1,
           Cap(4, Alt(Lit(STR_warning), Lit(STR_error))), Ch({":"}), Spaces1,
           Cap(5, LazyPlus(AnyChar)), Spaces1, Ch({"["}),
           Cap(6, Plus(AnyChar)), Ch({"]"})>>)

\* output.split("\n"): the lines of the analyzer's output
SplitLines(output) == Lines(output)

\* faulty variant of levelSeverity that ignores the level; the adapter
\* property must tell it from levelSeverity
levelSeverity_flat(levelStr) == SevWarning

\* the severity chosen by CubtekChecker.parseClangTidyOutput
levelSeverity(levelStr) ==
  IF levelStr = STR_error THEN SevError
  ELSE IF levelStr = STR_warning THEN SevWarning
  ELSE SevInformation

\* the body of the loop of parseClangTidyOutput for one output line: the
\* diagnostics it pushes (none when the line does not match, or when
\* building the range throws and the line is logged and skipped)
parseClangTidyLine(line, text) ==
  LET match == Exec(CLANG_TIDY_OUTPUT, line, 0)
  IN  IF ~match.found THEN <<>>
      ELSE
        LET lineNum == ParseInt(Group(line, match, 2)) - 1
            colNum == ParseInt(Group(line, match, 3)) - 1
            levelStr == Group(line, match, 4)
            message == Group(line, match, 5)
            ruleId == Group(line, match, 6)
        IN  IF PositionThrows(lineNum, colNum) \/ LineAtThrows(text, lineNum)
            THEN <<>>
            ELSE <<[range |-> Range(Position(lineNum, colNum),
                                    Position(lineNum, Len(LineText(text, lineNum)))),
                    message |-> message \o <<" ", "[">> \o ruleId \o <<"]">>,
                    severity |-> levelSeverity(levelStr),
                    source |-> SOURCE_CLANG_TIDY,
                    code |-> ruleId]>>

RECURSIVE parseClangTidyLines_abort(_, _)
\* faulty variant of the loop that gives up at the first line that matches
\* and yields nothing
parseClangTidyLines_abort(lines, text) ==
  IF lines = <<>> THEN <<>>
  ELSE IF Exec(CLANG_TIDY_OUTPUT, Head(lines), 0).found
          /\ parseClangTidyLine(Head(lines), text) = <<>>
  THEN <<>>
  ELSE parseClangTidyLine(Head(lines), text)
       \o parseClangTidyLines_abort(Tail(lines), text)

RECURSIVE parseClangTidyLines(_, _)
parseClangTidyLines(lines, text) ==
  IF lines = <<>> THEN <<>>
  ELSE parseClangTidyLine(Head(lines), text) \o parseClangTidyLines(Tail(lines), text)

\* CubtekChecker.parseClangTidyOutput
parseClangTidyOutput(output, text) ==
  parseClangTidyLines(SplitLines(output), text)

\* String.prototype.toLowerCase
LowerOf(c) ==
  LET up == <<"A","B","C","D","E","F","G","H","I","J","K","L","M",
              "N","O","P","Q","R","S","T","U","V","W","X","Y","Z">>
      lo == <<"a","b","c","d","e","f","g","h","i","j","k","l","m",
              "n","o","p","q","r","s","t","u","v","w","x","y","z">>
  IN  IF c \in Upper THEN lo[CHOOSE k \in 1..Len(up) : up[k] = c] ELSE c

toLowerCase(str) == [k \in 1..Len(str) |-> LowerOf(str[k])]

\* the severity switch of DiagnosticUtility.parseClangTidyDiagnostic
clangTidySeverity(level) ==
  LET l == toLowerCase(level)
  IN  IF l = STR_error THEN SevError
      ELSE IF l = STR_warning THEN SevWarning
      ELSE IF l = STR_note \/ l = STR_remark THEN SevInformation
      ELSE SevWarning

Threw == [threw |-> TRUE]

\* DiagnosticUtility.parseClangTidyDiagnostic; Threw when it throws
parseClangTidyDiagnostic(text, line, column, message, ruleId, level) ==
  IF PositionThrows(line - 1, column - 1) THEN Threw
  ELSE
    LET startPos == Position(line - 1, column - 1)
        lineText == LineText(text, line - 1)
        punctuationIndex == IndexOfFrom(lineText, <<";">>, column - 1)
        endColumn == IF punctuationIndex > 0 THEN punctuationIndex + 1
                     ELSE Len(lineText)
        endPos == IF LineAtThrows(text, line - 1) THEN Position(line - 1, 1000)
                  ELSE Position(line - 1, endColumn)
    IN  [threw |-> FALSE,
         range |-> Range(startPos, endPos),
         message |-> message,
         severity |-> clangTidySeverity(level),
         source |-> SOURCE_CLANG_TIDY,
         code |-> ruleId]

(***************************************************************************)
(* ConfigManager, RuleRegistry and severity resolution.                    *)
(*                                                                         *)
(* A RuleConfig is [enabled, severity, maxLines]; severity "" stands for   *)
(* an entry without a severity and maxLines 0 for one without              *)
(* params.maxLines.  config.rules is a function whose domain is the set of *)
(* rule ids that have an entry.                                            *)
(***************************************************************************)
\* the registered rules, in registration order
RuleIds == <<FUNC_001, NAME_001>>

RuleIdSet == {FUNC_001, NAME_001}

\* RuleMetadata.defaultSeverity of the two rules
defaultSeverity(id) == SevWarning

\* ConfigManager.defaultRules
defaultRules ==
  (FUNC_001 :> [enabled |-> TRUE, severity |-> "warning", maxLines |-> maxLines])
  @@ (NAME_001 :> [enabled |-> TRUE, severity |-> "warning", maxLines |-> 0])

\* { ...this.defaultRules, ...projectConfig.rules }
mergeRules(base, over) ==
  [id \in DOMAIN base \cup DOMAIN over |->
     IF id \in DOMAIN over THEN over[id] ELSE base[id]]

hasRuleConfig(cfg, ruleId) == ruleId \in DOMAIN cfg.rules

\* ConfigManager.getRuleConfig, for a rule id that has an entry
getRuleConfig(cfg, ruleId) == cfg.rules[ruleId]

\* ConfigManager.updateConfig: { ...this.config, ...newConfig }
updateConfig(cfg, newConfig) ==
  [severity |-> IF "severity" \in DOMAIN newConfig THEN newConfig.severity
                ELSE cfg.severity,
   rules |-> IF "rules" \in DOMAIN newConfig THEN newConfig.rules ELSE cfg.rules]

\* Rule constructor
newRule(id) == [enabled |-> TRUE, severity |-> defaultSeverity(id)]

\* a switch that takes its default branch for every severity string
switchSeverity_default(severityString) == SevWarning

\* the switch of RuleRegistry.configureRules
switchSeverity(severityString) ==
  IF severityString = "error" THEN SevError
  ELSE IF severityString = "warning" THEN SevWarning
  ELSE IF severityString = "information" THEN SevInformation
  ELSE IF severityString = "hint" THEN SevHint
  ELSE SevWarning

\* RuleRegistry.configureRules applied to the rule instances rs
configureRules(rs, cfg) ==
  [id \in DOMAIN rs |->
     IF hasRuleConfig(cfg, id)
     THEN LET ruleConfig == getRuleConfig(cfg, id)
          IN  [enabled |-> ruleConfig.enabled,
               severity |-> IF ruleConfig.severity # ""
                            THEN switchSeverity(ruleConfig.severity)
                            ELSE rs[id].severity]
     ELSE rs[id]]

\* RuleRegistry constructor: register the rules, then configure them
newRuleRegistry(cfg) == configureRules([id \in RuleIdSet |-> newRule(id)], cfg)

\* RuleRegistry.getEnabledRules, in registration order
getEnabledRules(rs) == SelectSeq(RuleIds, LAMBDA id : rs[id].enabled)

\* severityMap[severityString] of utils/diagnostics; -1 stands for undefined
severityMap(severityString) ==
  IF severityString = "error" THEN SevError
  ELSE IF severityString = "warning" THEN SevWarning
  ELSE IF severityString = "information" THEN SevInformation
  ELSE IF severityString = "hint" THEN SevHint
  ELSE -1

\* the severity computed by DiagnosticUtility.createDiagnostic:
\*   severityString = ruleConfig?.severity || config.severity
\*   severity = severityMap[severityString] || DiagnosticSeverity.Warning
\* ( a || b is b when a is undefined, "" or 0 )
utilitySeverity(cfg, ruleId) ==
  LET own == IF hasRuleConfig(cfg, ruleId) THEN getRuleConfig(cfg, ruleId).severity
             ELSE ""
      severityString == IF own # "" THEN own ELSE cfg.severity
      mapped == severityMap(severityString)
  IN  IF mapped = -1 \/ mapped = 0 THEN SevWarning ELSE mapped

\* DiagnosticUtility.createDiagnostic
DiagnosticUtility_createDiagnostic(cfg, range, message, ruleId) ==
  [range |-> range, message |-> message, severity |-> utilitySeverity(cfg, ruleId),
   source |-> SOURCE_CUBTEK, code |-> ruleId]

(***************************************************************************)
(* State.                                                                  *)
(*   config          ConfigManager.config (severity and rules)             *)
(*   rules           the rule instances of the RuleRegistry                *)
(*   pc              where the checkDocument call stands: "idle" before    *)
(*                   any call, "analyzer" while it awaits runClangTidy,    *)
(*                   "returned" once it has returned                       *)
(*   document        text of the document being checked                    *)
(*   languageId      its language id                                       *)
(*   throwing        the rules whose check throws during this call         *)
(*   tempFile        whether the analyzer's temporary file exists          *)
(*   analyzer        "none", "running", "exited" or "failed"               *)
(*   stdout          what the analyzer wrote before it exited              *)
(*   result          what checkDocument returned                           *)
(*   errorMessages   the messages shown with showErrorMessage              *)
(*   CPP_PATTERNS    lastIndex of the shared global patterns GLOBAL_VAR    *)
(*                   and FUNCTION of the constants module                  *)
(*   project         the run of the cubtek.checkProject command: the files *)
(*                   found, the loop's position, the token, the            *)
(*                   diagnostics published and the count reported          *)
(*   now             the clock that Date.now() reads, in milliseconds      *)
(*   calls           the checkFile calls started so far, in start order    *)
(*   tmpdir          the files of os.tmpdir()                              *)
(*   diagnosticCollection  the diagnostics published for each document     *)
(*   input, output   argument and result of the operation under study in   *)
(*                   the specifications of single operations               *)
(***************************************************************************)
VARIABLES config, rules, pc, document, languageId, throwing, tempFile, analyzer,
          stdout, result, errorMessages, CPP_PATTERNS, project, now, calls,
          tmpdir, diagnosticCollection, input, output

vars == <<config, rules, pc, document, languageId, throwing, tempFile, analyzer,
          stdout, result, errorMessages, CPP_PATTERNS, project, now, calls,
          tmpdir, diagnosticCollection, input, output>>

overlapVars == <<now, calls, tmpdir, diagnosticCollection>>

checkerVars ==
  <<pc, document, languageId, throwing, tempFile, analyzer, stdout, result,
    errorMessages, CPP_PATTERNS, project, overlapVars>>

NoInput == [op |-> "none"]

NoOutput == [done |-> FALSE]

\* the shared patterns as the constants module creates them
FreshPatterns == [GLOBAL_VAR |-> [lastIndex |-> 0], FUNCTION |-> [lastIndex |-> 0]]

\* the command cubtek.checkProject is not running
NoProject ==
  [phase |-> "none", files |-> <<>>, index |-> 0, opened |-> 0, checked |-> 0,
   isCancellationRequested |-> FALSE, published |-> <<>>, reported |-> -1]

\* no checkDocument call in progress
CheckerIdle ==
  /\ pc = "idle"
  /\ document = <<>>
  /\ languageId = ""
  /\ throwing = {}
  /\ tempFile = FALSE
  /\ analyzer = "none"
  /\ stdout = <<>>
  /\ result = <<>>
  /\ errorMessages = <<>>
  /\ CPP_PATTERNS = FreshPatterns
  /\ project = NoProject
  /\ now = 0
  /\ calls = <<>>
  /\ tmpdir = {}
  /\ diagnosticCollection = {}

\* ConfigManager constructor followed by initialize() with no project file
DefaultConfig == [severity |-> "warning", rules |-> defaultRules]

(***************************************************************************)
(* SpecConfig: configuration, registry and the two createDiagnostic        *)
(* operations.                                                             *)
(***************************************************************************)
SeverityStrings == {"error", "warning", "information", "hint"}

\* the rule entries a project file or an update may carry
RuleEntries ==
  [enabled : BOOLEAN, severity : {"", "error", "hint"}, maxLines : {0}]

NoRules == [id \in {} |-> 0]

\* the "rules" objects of project files: any subset of the rule ids
ProjectRules ==
  UNION {[ids -> RuleEntries] : ids \in SUBSET RuleIdSet}

\* the "rules" objects of updates: at most one entry
UpdateRules ==
  {NoRules} \cup UNION {[{id} -> RuleEntries] : id \in RuleIdSet}

\* ConfigManager.initialize: loadVSCodeSettings, then loadProjectConfig
InitConfigs ==
  {[severity |-> s, rules |-> mergeRules(defaultRules, proj)] :
     s \in SeverityStrings, proj \in ProjectRules}

\* the Partial<CubtekConfig> arguments of updateConfig
NewConfigs ==
  {[severity |-> s] : s \in SeverityStrings} \cup {[rules |-> r] : r \in UpdateRules}

SomeRange == Range(Position(0, 0), Position(0, 1))

SomeMessage == <<"m">>

InitConfig ==
  /\ config \in InitConfigs
  /\ rules = newRuleRegistry(config)
  /\ CheckerIdle
  /\ input = NoInput
  /\ output = NoOutput

\* ConfigManager.updateConfig; the registry is not told
UpdateConfig(newConfig) ==
  /\ config' = updateConfig(config, newConfig)
  /\ config' # config
  /\ output' = NoOutput
  /\ UNCHANGED <<rules, checkerVars, input>>

\* an enabled rule builds a diagnostic with Rule.createDiagnostic
RuleCreateDiagnostic(id) ==
  /\ rules[id].enabled
  /\ output' = [done |-> TRUE, op |-> "Rule.createDiagnostic", ruleId |-> id,
                val |-> createDiagnostic(id, rules[id].severity, SomeRange,
                                         SomeMessage)]
  /\ output' # output
  /\ UNCHANGED <<config, rules, checkerVars, input>>

\* DiagnosticUtility.createDiagnostic for a rule id
UtilityCreateDiagnostic(id) ==
  /\ output' = [done |-> TRUE, op |-> "DiagnosticUtility.createDiagnostic",
                ruleId |-> id,
                val |-> DiagnosticUtility_createDiagnostic(config, SomeRange,
                                                           SomeMessage, id)]
  /\ output' # output
  /\ UNCHANGED <<config, rules, checkerVars, input>>

NextConfig ==
  \/ \E newConfig \in NewConfigs : UpdateConfig(newConfig)
  \/ \E id \in RuleIdSet : RuleCreateDiagnostic(id)
  \/ \E id \in RuleIdSet : UtilityCreateDiagnostic(id)

SpecConfig == InitConfig /\ [][NextConfig]_vars

\* the DiagnosticSeverity a severity string names
SeverityNamed(s) ==
  CASE s = "error" -> SevError
    [] s = "warning" -> SevWarning
    [] s = "information" -> SevInformation
    [] s = "hint" -> SevHint

\* the rule of the last diagnostic has an entry with a severity
HasExplicitSeverity ==
  /\ hasRuleConfig(config, output.ruleId)
  /\ getRuleConfig(config, output.ruleId).severity # ""

\* C8: a local-rule diagnostic carries the rule's configured severity when the
\* configuration gives the rule one, and the rule's compiled-in
\* defaultSeverity otherwise, whatever the project-wide default severity is.
C8_SeverityResolution ==
  output.done =>
    output.val.severity =
      IF HasExplicitSeverity
      THEN SeverityNamed(getRuleConfig(config, output.ruleId).severity)
      ELSE defaultSeverity(output.ruleId)

(***************************************************************************)
(* SpecNaming: NamingConventionRule.check on documents that hold one       *)
(* declaration  <qualifier> <type> <name><terminator>  after a prefix.     *)
(***************************************************************************)
\* what precedes the declaration, and what closes the blocks it opens
NamingPrefixes ==
  {[open |-> <<>>, close |-> <<>>],
   [open |-> <<NL>>, close |-> <<>>],
   [open |-> <<" ", " ">>, close |-> <<NL>>],
   [open |-> <<"#", "d", "e", "f", "i", "n", "e", " ", "X", " ", "1", "\n">>, close |-> <<NL>>],
   [open |-> <<"i", "n", "t", " ", "g", "_", "a", ";", "\n">>, close |-> <<NL>>],
   [open |-> <<"/", "/", " ", "c", "o", "u", "n", "t", "e", "r", "\n">>, close |-> <<NL>>],
   [open |-> <<"v", "o", "i", "d", " ", "f", "(", ")", " ", "{", "\n", " ", " ">>, close |-> <<"\n", "}", "\n">>],
   [open |-> <<"v", "o", "i", "d", " ", "f", "(", ")", "\n", "{", " ">>, close |-> <<"\n", "}", "\n">>],
   [open |-> <<"s", "t", "r", "u", "c", "t", " ", "S", " ", "{", " ">>, close |-> <<" ", "}", ";", "\n">>],
   [open |-> <<"n", "a", "m", "e", "s", "p", "a", "c", "e", " ", "n", " ", "{", "\n">>, close |-> <<"\n", "}", "\n">>]}

NamingQualifiers ==
  {<<>>, <<"s", "t", "a", "t", "i", "c", " ">>, <<"e", "x", "t", "e", "r", "n", " ">>, <<"c", "o", "n", "s", "t", " ">>}

NamingTypes == {<<"i", "n", "t">>, <<"u", "i", "n", "t", "8", "_", "t">>}

NamingNames == {<<"c", "o", "u", "n", "t">>, <<"g", "_", "c", "o", "u", "n", "t">>}

NamingTerminators == {<<";">>, <<" ", "=", " ", "0", ";">>, <<"[", "4", "]", ";">>}

\* declOffset is the offset at which the declaration begins
NamingInputs ==
  {[op |-> "NamingConventionRule.check",
    text |-> p.open \o q \o t \o <<" ">> \o n \o e \o p.close,
    declOffset |-> Len(p.open),
    name |-> n] :
     p \in NamingPrefixes, q \in NamingQualifiers, t \in NamingTypes,
     n \in NamingNames, e \in NamingTerminators}

InitNaming ==
  /\ config = DefaultConfig
  /\ rules = newRuleRegistry(config)
  /\ CheckerIdle
  /\ input \in NamingInputs
  /\ output = NoOutput

\* NamingConventionRule.check(document)
NamingCheck ==
  /\ input.op = "NamingConventionRule.check"
  /\ ~output.done
  /\ output' = [done |-> TRUE,
                val |-> NamingConventionRule_check(input.text,
                                                   rules[NAME_001].severity)]
  /\ UNCHANGED <<config, rules, checkerVars, input>>

NextNaming == NamingCheck

SpecNaming == InitNaming /\ [][NextNaming]_vars

\* brace nesting depth of the text at an offset
BraceDepthAt(text, offset) ==
  Cardinality({k \in 1..offset : text[k] = "{"})
  - Cardinality({k \in 1..offset : text[k] = "}"})

\* the findings that report the declared name as a global variable
GlobalFindings ==
  {k \in 1..Len(output.val) :
     /\ output.val[k].code = NAME_001
     /\ Includes(output.val[k].message, input.name)
     /\ Includes(output.val[k].message, <<"g", "_", "\"">>)}

\* C3: a global declaration at file scope whose identifier lacks the g_
\* prefix gets exactly one finding, whose message contains the identifier
\* and g_; a declaration whose identifier has the prefix gets none.
C3_OneFindingPerGlobal ==
  (output.done /\ BraceDepthAt(input.text, input.declOffset) = 0) =>
    Cardinality(GlobalFindings) =
      IF StartsWith(input.name, <<"g", "_">>) THEN 0 ELSE 1

\* C4: a declaration nested inside a brace-delimited block (depth > 0 at the
\* declaration) gets no Naming-Convention finding, wherever the enclosing
\* opening brace sits relative to the declaration's line.
C4_NoFindingWhenNested ==
  (output.done /\ BraceDepthAt(input.text, input.declOffset) > 0) =>
    GlobalFindings = {}

(***************************************************************************)
(* SpecFuncLen: FunctionLengthRule.check on documents that hold one        *)
(* function spanning a given number of lines, under a configuration that   *)
(* sets params.maxLines of CUBTEK-FUNC-001.                                *)
(***************************************************************************)
\* the longest function span generated
MaxSpan == 53

\* a configured limit other than the default one
SmallMaxLines == 3

ConfiguredMaxLines == {SmallMaxLines, maxLines}

\* n copies of a line
Repeat(line, n) ==
  [k \in 1..(n * Len(line)) |-> line[((k - 1) % Len(line)) + 1]]

FunctionNames == {<<"p", "r", "o", "c", "e", "s", "s", "D", "a", "t", "a">>, <<"f">>}

\* signature layouts: the lines they occupy up to and including the line of
\* the opening brace
FunctionHeaders(name) ==
  {[text |-> <<"v", "o", "i", "d", " ">> \o name \o <<"(", ")", " ", "{", "\n">>, lines |-> 1],
   [text |-> <<"s", "t", "a", "t", "i", "c", " ", "i", "n", "t", "\n">> \o name \o <<"(", "i", "n", "t", " ", "a", ")", "\n", "{", "\n">>, lines |-> 3]}

\* body lines; a nested body wraps them in a block of its own
FunctionBody(n, nested) ==
  IF nested /\ n >= 2
  THEN <<"{", NL>> \o Repeat(<<"x", ";", NL>>, n - 2) \o <<"}", NL>>
  ELSE Repeat(<<"x", ";", NL>>, n)

\* span is the number of lines from the line where the signature starts to
\* the line of the closing brace; startLine is the line of the signature
FuncLenInputsOf(name, h) ==
  {[op |-> "FunctionLengthRule.check",
    text |-> Repeat(<<NL>>, lead) \o h.text
             \o FunctionBody(span - h.lines - 1, nested) \o <<"}", NL>>,
    name |-> name,
    startLine |-> lead,
    span |-> span] :
     lead \in {0, 2}, nested \in BOOLEAN, span \in (h.lines + 1)..MaxSpan}

FuncLenInputsNamed(name) ==
  UNION {FuncLenInputsOf(name, h) : h \in FunctionHeaders(name)}

FuncLenInputs == UNION {FuncLenInputsNamed(name) : name \in FunctionNames}

InitFuncLen ==
  /\ \E n \in ConfiguredMaxLines :
       config = [severity |-> "warning",
                 rules |-> mergeRules(defaultRules,
                             FUNC_001 :> [enabled |-> TRUE, severity |-> "warning",
                                          maxLines |-> n])]
  /\ rules = newRuleRegistry(config)
  /\ CheckerIdle
  /\ input \in FuncLenInputs
  /\ output = NoOutput

\* FunctionLengthRule.check(document)
FunctionLengthCheck ==
  /\ input.op = "FunctionLengthRule.check"
  /\ ~output.done
  /\ output' = [done |-> TRUE,
                val |-> FunctionLengthRule_check(input.text,
                                                 rules[FUNC_001].severity)]
  /\ UNCHANGED <<config, rules, checkerVars, input>>

NextFuncLen == FunctionLengthCheck

SpecFuncLen == InitFuncLen /\ [][NextFuncLen]_vars

\* the line on which an offset of a text lies
LineOfOffset(text, offset) == Cardinality({k \in 1..offset : text[k] = NL})

\* closing-brace line - signature line + 1, read off the generated document,
\* whose last two characters are the closing brace and a line break
SpanOfInput ==
  LineOfOffset(input.text, Len(input.text) - 2) - input.startLine + 1

ConfiguredLimit == getRuleConfig(config, FUNC_001).maxLines

\* C5: for every configured maxLines N, a function spanning exactly N lines
\* gets no Function-Length finding and one spanning N + 1 lines gets exactly
\* one finding, which names the function and reports N + 1.
C5_ConfiguredLimit ==
  output.done =>
    /\ SpanOfInput = ConfiguredLimit => output.val = <<>>
    /\ SpanOfInput = ConfiguredLimit + 1 =>
         /\ Len(output.val) = 1
         /\ Includes(output.val[1].message, input.name)
         /\ Includes(output.val[1].message, NumToString(ConfiguredLimit + 1))

ProcessData52 ==
  <<"F", "u", "n", "c", "t", "i", "o", "n", " ", "\"", "p", "r", "o", "c", "e", "s", "s", "D", "a", "t", "a", "\"", " ", "i", "s", " ", "5", "2", " ", "l", "i", "n", "e", "s", " ", "l", "o", "n", "g", " ", "(", "m", "a", "x", "i", "m", "u", "m", " ", "a", "l", "l", "o", "w", "e", "d", " ", "i", "s", " ", "5", "0", ")">>

\* C6: with the default limit of 50, lineCount is the closing brace's line
\* minus the line where the signature match starts plus one, and there is a
\* finding exactly when lineCount > 50; it is placed on the signature's line
\* and reports lineCount and 50, so that a 52-line processData gets the one
\* finding "Function "processData" is 52 lines long (maximum allowed is 50)".
C6_LineCount ==
  (output.done /\ ConfiguredLimit = 50) =>
    /\ SpanOfInput = input.span
    /\ IF SpanOfInput > 50
       THEN /\ Len(output.val) = 1
            /\ output.val[1].code = FUNC_001
            /\ output.val[1].range.start.line = input.startLine
            /\ output.val[1].message =
                 <<"F","u","n","c","t","i","o","n"," ","\"">> \o input.name
                 \o <<"\""," ","i","s"," ">> \o NumToString(SpanOfInput)
                 \o <<" ","l","i","n","e","s"," ","l","o","n","g"," ","(","m","a",
                      "x","i","m","u","m"," ","a","l","l","o","w","e","d"," ","i",
                      "s"," ","5","0",")">>
            /\ (input.name = <<"p","r","o","c","e","s","s","D","a","t","a">>
                /\ SpanOfInput = 52) => output.val[1].message = ProcessData52
       ELSE output.val = <<>>

\* C6 witness: the 52-line processData has been checked under the default
\* limit and got its one finding
C6_Witness ==
  /\ output.done
  /\ ConfiguredLimit = 50
  /\ input.name = <<"p","r","o","c","e","s","s","D","a","t","a">>
  /\ SpanOfInput = 52
  /\ Len(output.val) = 1
  /\ output.val[1].message = ProcessData52

(***************************************************************************)
(* SpecScan: findFunctionEnd on every short text over braces, a letter and *)
(* a line break, from every offset.                                        *)
(***************************************************************************)
\* the longest text scanned
MaxScanLen == 5

ScanAlphabet == {"{", "}", "a", NL}

ScanTexts == UNION {[1..n -> ScanAlphabet] : n \in 0..MaxScanLen}

ScanInputsOf(text) ==
  {[op |-> "findFunctionEnd", text |-> text, offset |-> o] : o \in 0..Len(text)}

ScanInputs == UNION {ScanInputsOf(text) : text \in ScanTexts}

InitScan ==
  /\ config = DefaultConfig
  /\ rules = newRuleRegistry(config)
  /\ CheckerIdle
  /\ input \in ScanInputs
  /\ output = NoOutput

\* findFunctionEnd(document, document.positionAt(offset))
FindFunctionEnd ==
  /\ input.op = "findFunctionEnd"
  /\ ~output.done
  /\ output' = [done |-> TRUE,
                val |-> findFunctionEnd(input.text,
                                        PositionAt(input.text, input.offset))]
  /\ UNCHANGED <<config, rules, checkerVars, input>>

NextScan == FindFunctionEnd

SpecScan == InitScan /\ [][NextScan]_vars

\* brace nesting, counted from offset from, after the character at offset to
DepthFrom(text, from, to) ==
  Cardinality({k \in from..to : text[k + 1] = "{"})
  - Cardinality({k \in from..to : text[k + 1] = "}"})

\* all braces of the text are matched
WellBalanced(text) ==
  /\ DepthFrom(text, 0, Len(text) - 1) = 0
  /\ \A i \in 0..(Len(text) - 1) : DepthFrom(text, 0, i) >= 0

\* the offsets of the closing braces at which the nesting counted from the
\* start offset is back at zero, having been positive before
ReturnsToStartDepth ==
  {i \in input.offset..(Len(input.text) - 1) :
     /\ input.text[i + 1] = "}"
     /\ DepthFrom(input.text, input.offset, i) = 0
     /\ \E j \in input.offset..(i - 1) : DepthFrom(input.text, input.offset, j) > 0}

\* line and column of an offset, counted on the text
PositionOfOffset(text, offset) ==
  LET breaks == {k \in 1..offset : text[k] = NL}
      lineStart == IF breaks = {} THEN 0
                   ELSE CHOOSE k \in breaks : \A m \in breaks : m <= k
  IN  [line |-> Cardinality(breaks), character |-> offset - lineStart]

\* C7: from every start offset, findFunctionEnd returns the position of the
\* first closing brace at which the brace nesting counted from the offset
\* returns to zero after having been positive, and null when there is none;
\* in particular it returns null when no opening brace lies at or after the
\* offset.  (Checked for every text, well balanced or not.)
C7_FindFunctionEnd ==
  output.done =>
    /\ IF ReturnsToStartDepth = {} THEN output.val = Null
       ELSE output.val =
              PositionOfOffset(input.text,
                CHOOSE i \in ReturnsToStartDepth :
                  \A j \in ReturnsToStartDepth : i <= j)
    /\ (\A k \in input.offset..(Len(input.text) - 1) : input.text[k + 1] # "{")
         => output.val = Null

\* C7 witness: in a well-balanced text the scan went past an inner closing
\* brace and returned a later one, on a later line than the start
C7_Witness ==
  /\ output.done
  /\ WellBalanced(input.text)
  /\ output.val # Null
  /\ output.val.line > 0
  /\ \E i \in ReturnsToStartDepth :
       \E j \in input.offset..(i - 1) : input.text[j + 1] = "}"

(***************************************************************************)
(* SpecTidy: the two adapters of analyzer diagnostics,                     *)
(* CubtekChecker.parseClangTidyOutput on an output that holds one line     *)
(*   <path>:<L>:<C>: <level>: <message> [<rule-id>]                        *)
(* and DiagnosticUtility.parseClangTidyDiagnostic on the parts of one.     *)
(***************************************************************************)
\* the largest line and column numbers the analyzer reports
MaxTidyLine == 11

MaxTidyCol == 8

\* a document of ten lines, a document of one line, and a line that goes
\* on after its first semicolon
TidyDocs ==
  {Repeat(<<"i", "n", "t", " ", "x", ";", "\n">>, 9) \o <<" ", " ", "i", "n", "t", " ", "y", " ", "=", " ", "0", ";">>,
   <<"a", ";">>,
   <<"i", "n", "t", " ", "x", ";", " ", "i", "n", "t", " ", "y", ";">>}

TidyPath == <<"/", "t", "m", "p", "/", "a", ".", "c">>

UnusedVariable == <<"u", "n", "u", "s", "e", "d", " ", "v", "a", "r", "i", "a", "b", "l", "e", " ", "'", "x", "'">>

ClangUnusedVariable ==
  <<"c", "l", "a", "n", "g", "-", "d", "i", "a", "g", "n", "o", "s", "t", "i", "c", "-", "u", "n", "u", "s", "e", "d", "-", "v", "a", "r", "i", "a", "b", "l", "e">>

\* message and rule id of the reported diagnostics
TidyFindings ==
  {[message |-> UnusedVariable, ruleId |-> ClangUnusedVariable],
   [message |-> <<"i", "n", "d", "e", "x", " ", "[", "i", "]", " ", "u", "n", "u", "s", "e", "d">>, ruleId |-> <<"m", "i", "s", "c", "-", "x">>],
   [message |-> <<"s", "e", "e", " ", "b", ".", "c", ":", "1", ":", "2", ":", " ", "e", "r", "r", "o", "r", ":", " ", "y">>, ruleId |-> <<"m", "i", "s", "c", "-", "x">>]}

\* the levels of output lines
OutputLevels == {STR_warning, STR_error, STR_note}

\* the levels handed to parseClangTidyDiagnostic
DiagnosticLevels ==
  {STR_error, STR_warning, STR_note, STR_remark, <<"f", "a", "t", "a", "l">>, <<"i", "n", "f", "o">>,
   <<"E", "r", "r", "o", "r">>, <<>>}

\* a line the analyzer prints that is no diagnostic
SummaryLine == <<"1", " ", "w", "a", "r", "n", "i", "n", "g", " ", "g", "e", "n", "e", "r", "a", "t", "e", "d", ".">>

\* the analyzer's line for a diagnostic
TidyLine(L, C, level, f) ==
  TidyPath \o <<":">> \o NumToString(L) \o <<":">> \o NumToString(C)
  \o <<":", " ">> \o level \o <<":", " ">> \o f.message
  \o <<" ", "[">> \o f.ruleId \o <<"]">>

TidyOutputInputs ==
  {[op |-> "parseClangTidyOutput", text |-> d,
    stdout |-> IF summary THEN SummaryLine \o <<NL>> \o TidyLine(L, C, level, f)
               ELSE TidyLine(L, C, level, f),
    L |-> L, C |-> C, level |-> level, message |-> f.message,
    ruleId |-> f.ruleId] :
     d \in TidyDocs, L \in 0..MaxTidyLine, C \in 0..MaxTidyCol,
     level \in OutputLevels, f \in TidyFindings, summary \in BOOLEAN}

TidyDiagnosticInputs ==
  {[op |-> "parseClangTidyDiagnostic", text |-> d, L |-> L, C |-> C,
    level |-> level, message |-> UnusedVariable, ruleId |-> ClangUnusedVariable] :
     d \in TidyDocs, L \in 0..MaxTidyLine, C \in 0..MaxTidyCol,
     level \in DiagnosticLevels}

InitTidy ==
  /\ config = DefaultConfig
  /\ rules = newRuleRegistry(config)
  /\ CheckerIdle
  /\ input \in TidyOutputInputs \cup TidyDiagnosticInputs
  /\ output = NoOutput

\* CubtekChecker.parseClangTidyOutput(output, document)
ParseClangTidyOutput ==
  /\ input.op = "parseClangTidyOutput"
  /\ ~output.done
  /\ output' = [done |-> TRUE, val |-> parseClangTidyOutput(input.stdout, input.text)]
  /\ UNCHANGED <<config, rules, checkerVars, input>>

\* DiagnosticUtility.parseClangTidyDiagnostic(document, _, line, column,
\*                                            message, ruleId, level)
ParseClangTidyDiagnostic ==
  /\ input.op = "parseClangTidyDiagnostic"
  /\ ~output.done
  /\ output' = [done |-> TRUE,
                val |-> parseClangTidyDiagnostic(input.text, input.L, input.C,
                          input.message, input.ruleId, input.level)]
  /\ UNCHANGED <<config, rules, checkerVars, input>>

NextTidy ==
  \/ ParseClangTidyOutput
  \/ ParseClangTidyDiagnostic

SpecTidy == InitTidy /\ [][NextTidy]_vars

\* the analyzer's line has the shape the adapter expects
ShapedLine == input.level \in {STR_warning, STR_error}

\* the number of lines of a text, and the length of its line L (1-based)
LinesOf(text) == Cardinality({k \in 1..Len(text) : text[k] = NL}) + 1

LineLengthOf(text, L) ==
  Cardinality({o \in 0..(Len(text) - 1) :
                 LineOfOffset(text, o) = L - 1 /\ text[o + 1] # NL})

\* a diagnostic is the adaptation of the reported one: it starts at 0-based
\* line L - 1 and column C - 1, maps the level and carries the rule id
Adapted(d) ==
  /\ d.range.start = [line |-> input.L - 1, character |-> input.C - 1]
  /\ d.severity = IF input.level = STR_error THEN SevError ELSE SevWarning
  /\ d.code = input.ruleId

OneAdapted ==
  IF input.op = "parseClangTidyOutput"
  THEN Len(output.val) = 1 /\ Adapted(output.val[1])
  ELSE ~output.val.threw /\ Adapted(output.val)

Convertible ==
  /\ input.L \in 1..LinesOf(input.text)
  /\ input.C \in 1..(LineLengthOf(input.text, input.L) + 1)
  /\ ~Includes(input.message, <<"[">>)
  /\ ~Includes(input.message, <<":">>)

ExampleLine ==
  <<"/", "t", "m", "p", "/", "a", ".", "c", ":", "1", "0", ":", "5", ":", " ", "w", "a", "r", "n", "i", "n", "g", ":", " ", "u", "n", "u", "s", "e", "d", " ", "v", "a", "r", "i", "a", "b", "l", "e", " ", "'", "x", "'", " ">>
  \o <<"[", "c", "l", "a", "n", "g", "-", "d", "i", "a", "g", "n", "o", "s", "t", "i", "c", "-", "u", "n", "u", "s", "e", "d", "-", "v", "a", "r", "i", "a", "b", "l", "e", "]">>

ClaimedSeverity(level) ==
  IF toLowerCase(level) = STR_error THEN SevError
  ELSE IF toLowerCase(level) = STR_warning THEN SevWarning
  ELSE SevInformation

\* C10: the adapter's severity mapping is total: error maps to Error,
\* warning to Warning, note and remark to Information, and every other
\* level to Information.
C10_SeverityMapping ==
  output.done =>
    IF input.op = "parseClangTidyOutput"
    THEN \A k \in 1..Len(output.val) :
           output.val[k].severity = ClaimedSeverity(input.level)
    ELSE ~output.val.threw => output.val.severity = ClaimedSeverity(input.level)

(***************************************************************************)
(* Spec: CubtekChecker.checkDocument, one call at a time.  The call writes *)
(* the temporary file, spawns the analyzer and awaits it; the analyzer     *)
(* then either closes with its output or emits an error.                   *)
(***************************************************************************)
\* CubtekChecker.runCustomRuleChecks: rule.check of a registered rule
ruleCheck(id, text, severity) ==
  IF id = FUNC_001 THEN FunctionLengthRule_check(text, severity)
  ELSE NamingConventionRule_check(text, severity)

\* the loop of runCustomRuleChecks over the rules ids; a rule of thrown
\* throws, which is caught and logged
RECURSIVE runRules(_, _, _, _)
runRules(ids, rs, text, thrown) ==
  IF ids = <<>> THEN <<>>
  ELSE (IF Head(ids) \in thrown THEN <<>>
        ELSE ruleCheck(Head(ids), text, rs[Head(ids)].severity))
       \o runRules(Tail(ids), rs, text, thrown)

\* a faulty runCustomRuleChecks that runs only the rule registered first
runCustomRuleChecks_first(rs, text, thrown) ==
  runRules(SelectSeq(getEnabledRules(rs), LAMBDA id : id = RuleIds[1]), rs, text,
           thrown)

\* CubtekChecker.runCustomRuleChecks
runCustomRuleChecks(rs, text, thrown) ==
  runRules(getEnabledRules(rs), rs, text, thrown)

STR_ENOENT == <<"E", "N", "O", "E", "N", "T">>

NotFoundMessage ==
  <<"c", "l", "a", "n", "g", "-", "t", "i", "d", "y", " ", "n", "o", "t", " ", "f", "o", "u", "n", "d", ".", " ", "P", "l", "e", "a", "s", "e", " ", "i", "n", "s", "t", "a", "l", "l", " ", "c", "l", "a", "n", "g", "-", "t", "i", "d", "y", ".">>

\* the message of the error runClangTidy rejects with on an 'error' event
rejectMessage(err) == IF Includes(err, STR_ENOENT) THEN NotFoundMessage ELSE err

\* `Checker error: ${errorMessage}`
checkerError(errorMessage) ==
  <<"C", "h", "e", "c", "k", "e", "r", " ", "e", "r", "r", "o", "r", ":", " ">> \o errorMessage

LanguageIds == {"c", "cpp", "python"}

\* documents: a global variable, a badly named function, a function of 52
\* lines, both a global variable and that function, and nothing to report
CheckedDocs ==
  {<<"s", "t", "a", "t", "i", "c", " ", "i", "n", "t", " ", "c", "o", "u", "n", "t", ";", "\n">>,
   <<"v", "o", "i", "d", " ", "B", "a", "d", "_", "n", "a", "m", "e", "(", ")", " ", "{", "\n", "}", "\n">>,
   <<"v", "o", "i", "d", " ", "p", "r", "o", "c", "e", "s", "s", "D", "a", "t", "a", "(", ")", " ", "{", "\n">> \o Repeat(<<"x", ";", NL>>, maxLines) \o <<"}", NL>>,
   <<"s", "t", "a", "t", "i", "c", " ", "i", "n", "t", " ", "c", "o", "u", "n", "t", ";", "\n">> \o <<"v", "o", "i", "d", " ", "p", "r", "o", "c", "e", "s", "s", "D", "a", "t", "a", "(", ")", " ", "{", "\n">>
     \o Repeat(<<"x", ";", NL>>, maxLines) \o <<"}", NL>>,
   <<"i", "n", "t", " ", "g", "_", "x", ";", "\n">>}

\* what the analyzer may print before it exits
AnalyzerOutputs ==
  {<<>>,
   TidyLine(1, 1, STR_warning, [message |-> UnusedVariable,
                                ruleId |-> ClangUnusedVariable]),
   SummaryLine \o <<NL>>
     \o TidyLine(1, 5, STR_error, [message |-> UnusedVariable,
                                   ruleId |-> ClangUnusedVariable])
     \o <<NL>>
     \o TidyLine(2, 1, STR_warning, [message |-> UnusedVariable,
                                     ruleId |-> ClangUnusedVariable])}

\* the errors of the 'error' event and of writeFileSync
SpawnErrors ==
  {<<"s", "p", "a", "w", "n", " ", "c", "l", "a", "n", "g", "-", "t", "i", "d", "y", " ", "E", "N", "O", "E", "N", "T">>, <<"s", "p", "a", "w", "n", " ", "c", "l", "a", "n", "g", "-", "t", "i", "d", "y", " ", "E", "A", "C", "C", "E", "S">>}

WriteError == <<"E", "N", "O", "S", "P", "C", ":", " ", "n", "o", " ", "s", "p", "a", "c", "e", " ", "l", "e", "f", "t", " ", "o", "n", " ", "d", "e", "v", "i", "c", "e">>

\* the configurations the checker is constructed under: each rule enabled
\* or disabled by the project file
CheckerConfigs ==
  {[severity |-> "warning",
    rules |-> mergeRules(defaultRules,
                [id \in RuleIdSet |->
                   [enabled |-> id \in on, severity |-> "", maxLines |-> 0]])] :
     on \in SUBSET RuleIdSet}

Init ==
  /\ config \in CheckerConfigs
  /\ rules = newRuleRegistry(config)
  /\ CheckerIdle
  /\ input = NoInput
  /\ output = NoOutput

\* the error cp.spawn throws when it fails at once
SpawnThrow == <<"s", "p", "a", "w", "n", " ", "E", "2", "B", "I", "G">>

\* how runClangTidy fares up to the registration of its handlers:
\* writeFileSync throws, or the file is written and cp.spawn throws, or the
\* analyzer is spawned
SetupOutcomes == {"write throws", "spawn throws", "spawned"}

\* checkDocument(document) up to its first await: the language test, then
\* runClangTidy writes the temporary file and spawns the analyzer; when
\* writeFileSync or cp.spawn throws, the catch of runClangTidy rejects and
\* checkDocument shows the error and returns the empty list.  thrown names
\* the rules whose check will throw during this call; tempFile tells
\* whether the temporary file of this call exists.
callCheckDocument(text, lang, thrown, setup) ==
  /\ pc \in {"idle", "returned"}
  /\ document' = text
  /\ languageId' = lang
  /\ throwing' = thrown
  /\ stdout' = <<>>
  /\ result' = <<>>
  /\ IF lang # "c" /\ lang # "cpp"
     THEN /\ pc' = "returned"
          /\ analyzer' = "none"
          /\ tempFile' = FALSE
          /\ errorMessages' = <<>>
     ELSE IF setup = "write throws"
     THEN /\ pc' = "returned"
          /\ analyzer' = "none"
          /\ tempFile' = FALSE
          /\ errorMessages' = <<checkerError(WriteError)>>
     ELSE IF setup = "spawn throws"
     THEN /\ pc' = "returned"
          /\ analyzer' = "none"
          /\ tempFile' = TRUE
          /\ errorMessages' = <<checkerError(SpawnThrow)>>
     ELSE /\ pc' = "analyzer"
          /\ analyzer' = "running"
          /\ tempFile' = TRUE
          /\ errorMessages' = <<>>
  /\ UNCHANGED <<config, rules, CPP_PATTERNS, overlapVars, input, output>>

\* checkDocument called by checkFile for a document that was saved or opened
CheckDocument(text, lang, thrown, setup) ==
  /\ callCheckDocument(text, lang, thrown, setup)
  /\ UNCHANGED project

\* the 'close' handler of runClangTidy and the rest of checkDocument: the
\* temporary file is deleted, the output parsed, the rules run and the two
\* lists returned one after the other
AnalyzerClose(out) ==
  /\ pc = "analyzer"
  /\ analyzer = "running"
  /\ analyzer' = "exited"
  /\ stdout' = out
  /\ tempFile' = FALSE
  /\ result' = parseClangTidyOutput(out, document)
               \o runCustomRuleChecks(rules, document, throwing)
  /\ pc' = "returned"
  /\ UNCHANGED <<config, rules, document, languageId, throwing, errorMessages,
                 CPP_PATTERNS, project, overlapVars, input, output>>

\* the 'error' handler of runClangTidy and the catch of checkDocument: the
\* temporary file is deleted, the promise rejected, the error shown and the
\* empty list returned
AnalyzerError(err) ==
  /\ pc = "analyzer"
  /\ analyzer = "running"
  /\ analyzer' = "failed"
  /\ tempFile' = FALSE
  /\ errorMessages' = Append(errorMessages, checkerError(rejectMessage(err)))
  /\ result' = <<>>
  /\ pc' = "returned"
  /\ UNCHANGED <<config, rules, document, languageId, throwing, stdout,
                 CPP_PATTERNS, project, overlapVars, input, output>>

Next ==
  \/ \E text \in CheckedDocs, lang \in LanguageIds, thrown \in SUBSET RuleIdSet,
        setup \in SetupOutcomes : CheckDocument(text, lang, thrown, setup)
  \/ \E out \in AnalyzerOutputs : AnalyzerClose(out)
  \/ \E err \in SpawnErrors : AnalyzerError(err)

Spec == Init /\ [][Next]_vars

\* the findings of a rule on the checked document, when it is enabled and
\* its check does not throw
LocalFindings(id) ==
  IF rules[id].enabled /\ id \notin throwing
  THEN ruleCheck(id, document, rules[id].severity)
  ELSE <<>>

\* the diagnostics the analyzer reported
ExternalFindings ==
  IF analyzer = "exited" THEN parseClangTidyOutput(stdout, document) ELSE <<>>

Occurs(d, list) == \E k \in 1..Len(list) : list[k] = d

\* C1: when the analyzer is unavailable or errors, checkDocument still runs
\* every enabled local rule and returns their diagnostics; the failure is
\* shown once as an error and does not empty the result.
C1_LocalRulesSurviveAnalyzerFailure ==
  (pc = "returned" /\ analyzer = "failed") =>
    /\ result = LocalFindings(FUNC_001) \o LocalFindings(NAME_001)
    /\ Len(errorMessages) = 1

\* C2: whatever rules are enabled and whichever of them throw, the result of
\* checkDocument on a C or C++ document contains every diagnostic of every
\* enabled rule that does not throw and every analyzer diagnostic.
C2_ThrowingRulesIsolated ==
  (pc = "returned" /\ languageId \in {"c", "cpp"}) =>
    /\ \A id \in RuleIdSet :
         \A k \in 1..Len(LocalFindings(id)) : Occurs(LocalFindings(id)[k], result)
    /\ \A k \in 1..Len(ExternalFindings) : Occurs(ExternalFindings[k], result)

(***************************************************************************)
(* CubtekQuickFixProvider: the code actions offered for diagnostics.       *)
(*                                                                         *)
(* A code action is [title, command, arguments, edits, diagnostics]; an    *)
(* action without a command has command <<>>, one without a workspace edit *)
(* has edits <<>>.                                                         *)
(***************************************************************************)
\* document.getText(range)
getText(text, range) ==
  SubSeq(text, OffsetAt(text, range.start) + 1, OffsetAt(text, range.end))

\* faulty variant of replacePrefix that strips nothing; the fix properties
\* must tell it from replacePrefix
replacePrefix_keep(varName, prefix) == varName

\* varName.replace(/^g_/, "") and varName.replace(/^s_/, "")
replacePrefix(varName, prefix) ==
  IF StartsWith(varName, prefix)
  THEN SubSeq(varName, Len(prefix) + 1, Len(varName))
  ELSE varName

\* `${varName.charAt(0).toLowerCase()}${varName.slice(1)}`
lowerFirst(varName) ==
  IF varName = <<>> THEN <<>>
  ELSE <<LowerOf(varName[1])>> \o SubSeq(varName, 2, Len(varName))

STR_global_variable == <<"g", "l", "o", "b", "a", "l", " ", "v", "a", "r", "i", "a", "b", "l", "e">>

STR_static_variable == <<"s", "t", "a", "t", "i", "c", " ", "v", "a", "r", "i", "a", "b", "l", "e">>

STR_parameter == <<"p", "a", "r", "a", "m", "e", "t", "e", "r">>

\* the fixedName of createNamingConventionFixAction
fixedName(varName, message) ==
  IF Includes(message, STR_global_variable)
  THEN <<"g", "_">> \o replacePrefix(varName, <<"g", "_">>)
  ELSE IF Includes(message, STR_static_variable)
  THEN <<"s", "_">> \o replacePrefix(varName, <<"s", "_">>)
  ELSE IF Includes(message, STR_parameter)
  THEN lowerFirst(varName)
  ELSE varName

\* CubtekQuickFixProvider.createNamingConventionFixAction
createNamingConventionFixAction(text, diagnostic) ==
  [title |-> <<"F", "i", "x", " ", "v", "a", "r", "i", "a", "b", "l", "e", " ", "n", "a", "m", "i", "n", "g">>,
   command |-> <<>>,
   arguments |-> <<>>,
   edits |-> <<[range |-> diagnostic.range,
                newText |-> fixedName(getText(text, diagnostic.range),
                                      diagnostic.message)]>>,
   diagnostics |-> <<diagnostic>>]

\* CubtekQuickFixProvider.createFunctionLengthFixAction
createFunctionLengthFixAction(text, diagnostic) ==
  [title |-> <<"E", "x", "t", "r", "a", "c", "t", " ", "p", "a", "r", "t", " ", "o", "f", " ", "f", "u", "n", "c", "t", "i", "o", "n", " ", "t", "o", " ", "r", "e", "d", "u", "c", "e", " ", "l", "e", "n", "g", "t", "h">>,
   command |-> <<"e", "d", "i", "t", "o", "r", ".", "a", "c", "t", "i", "o", "n", ".", "r", "e", "f", "a", "c", "t", "o", "r", ".", "e", "x", "t", "r", "a", "c", "t">>,
   arguments |-> <<>>,
   edits |-> <<>>,
   diagnostics |-> <<diagnostic>>]

\* CubtekQuickFixProvider.createGenericFixAction
createGenericFixAction(text, diagnostic) ==
  [title |-> <<"V", "i", "e", "w", " ", "d", "o", "c", "u", "m", "e", "n", "t", "a", "t", "i", "o", "n", " ", "f", "o", "r", " ">> \o diagnostic.code,
   command |-> <<"v", "s", "c", "o", "d", "e", ".", "o", "p", "e", "n">>,
   arguments |->
     <<<<"h", "t", "t", "p", "s", ":", "/", "/", "c", "l", "a", "n", "g", ".", "l", "l", "v", "m", ".", "o", "r", "g", "/", "e", "x", "t", "r", "a", "/", "c", "l", "a", "n", "g", "-", "t", "i", "d", "y", "/", "c", "h", "e", "c", "k", "s", "/">>
       \o diagnostic.code \o <<".", "h", "t", "m", "l">>>>,
   edits |-> <<>>,
   diagnostics |-> <<diagnostic>>]

\* faulty variant of actionsFor whose default case offers the documentation
\* action whatever the source; the dispatch property must tell it from
\* actionsFor
actionsFor_any(text, diagnostic) ==
  IF diagnostic.code = <<>> THEN <<>>
  ELSE IF diagnostic.code = FUNC_001
  THEN <<createFunctionLengthFixAction(text, diagnostic)>>
  ELSE IF diagnostic.code = NAME_001
  THEN <<createNamingConventionFixAction(text, diagnostic)>>
  ELSE <<createGenericFixAction(text, diagnostic)>>

\* the body of the loop of provideCodeActions: the actions pushed for one
\* diagnostic
actionsFor(text, diagnostic) ==
  IF diagnostic.code = <<>> THEN <<>>
  ELSE IF diagnostic.code = FUNC_001
  THEN <<createFunctionLengthFixAction(text, diagnostic)>>
  ELSE IF diagnostic.code = NAME_001
  THEN <<createNamingConventionFixAction(text, diagnostic)>>
  ELSE IF diagnostic.source = SOURCE_CLANG_TIDY
  THEN <<createGenericFixAction(text, diagnostic)>>
  ELSE <<>>

RECURSIVE actionsForAll(_, _)
actionsForAll(text, diagnostics) ==
  IF diagnostics = <<>> THEN <<>>
  ELSE actionsFor(text, Head(diagnostics)) \o actionsForAll(text, Tail(diagnostics))

\* CubtekQuickFixProvider.provideCodeActions(document, _, context, _)
provideCodeActions(text, diagnostics) ==
  actionsForAll(text,
    SelectSeq(diagnostics,
      LAMBDA diag : diag.source = SOURCE_CUBTEK \/ diag.source = SOURCE_CLANG_TIDY))

(***************************************************************************)
(* SpecFix: provideCodeActions on a one-line document  int <name>;  with   *)
(* one or two diagnostics in its context.                                  *)
(***************************************************************************)
FixNames ==
  {<<"c", "o", "u", "n", "t">>, <<"g", "_", "c", "o", "u", "n", "t">>, <<"s", "_", "c", "o", "u", "n", "t">>, <<"C", "o", "u", "n", "t">>, <<"g", "_", "g", "_", "x">>}

\* the document that declares a name, and the range of the name in it
FixDoc(name) == <<"i", "n", "t", " ">> \o name \o <<";">>

FixRange(name) == Range(Position(0, 4), Position(0, 4 + Len(name)))

\* messages of naming diagnostics: the two the rule emits, one for each
\* kind of fix, one that names two kinds and one that names none
FixMessages(name) ==
  {GLOBAL_VAR_PREFIX(name), FUNCTION_NAMING(name),
   <<"g", "l", "o", "b", "a", "l", " ", "v", "a", "r", "i", "a", "b", "l", "e", " ", "s", "h", "o", "u", "l", "d", " ", "s", "t", "a", "r", "t", " ", "w", "i", "t", "h", " ", "g", "_">>,
   <<"s", "t", "a", "t", "i", "c", " ", "v", "a", "r", "i", "a", "b", "l", "e", " ", "s", "h", "o", "u", "l", "d", " ", "s", "t", "a", "r", "t", " ", "w", "i", "t", "h", " ", "s", "_">>,
   <<"p", "a", "r", "a", "m", "e", "t", "e", "r", " ", "s", "h", "o", "u", "l", "d", " ", "s", "t", "a", "r", "t", " ", "i", "n", " ", "l", "o", "w", "e", "r", " ", "c", "a", "s", "e">>,
   <<"s", "t", "a", "t", "i", "c", " ", "v", "a", "r", "i", "a", "b", "l", "e", " ", "h", "i", "d", "e", "s", " ", "a", " ", "g", "l", "o", "b", "a", "l", " ", "v", "a", "r", "i", "a", "b", "l", "e">>,
   <<"b", "a", "d", " ", "n", "a", "m", "e">>}

OtherSource == <<"e", "s", "l", "i", "n", "t">>

\* the diagnostics on the document of a name
FixDiagnostics(name) ==
  {[range |-> FixRange(name), message |-> msg, severity |-> SevWarning,
    source |-> SOURCE_CUBTEK, code |-> NAME_001] : msg \in FixMessages(name)}
  \cup
  {[range |-> FixRange(name), message |-> <<"m">>, severity |-> SevWarning,
    source |-> src, code |-> code] :
     src \in {SOURCE_CUBTEK},
     code \in {FUNC_001, <<"C", "U", "B", "T", "E", "K", "-", "S", "T", "Y", "L", "E", "-", "0", "0", "1">>, <<>>}}
  \cup
  {[range |-> FixRange(name), message |-> <<"m">>, severity |-> SevWarning,
    source |-> src, code |-> code] :
     src \in {SOURCE_CLANG_TIDY, OtherSource},
     code \in {ClangUnusedVariable, <<"m", "i", "s", "c", "-", "x">>}}

FixInputsOf(name) ==
  {[op |-> "provideCodeActions", text |-> FixDoc(name), diagnostics |-> <<d>>] :
     d \in FixDiagnostics(name)}
  \cup
  {[op |-> "provideCodeActions", text |-> FixDoc(name), diagnostics |-> <<d, e>>] :
     d \in FixDiagnostics(name), e \in FixDiagnostics(name)}

FixInputs == UNION {FixInputsOf(name) : name \in FixNames}

InitFix ==
  /\ config = DefaultConfig
  /\ rules = newRuleRegistry(config)
  /\ CheckerIdle
  /\ input \in FixInputs
  /\ output = NoOutput

\* CubtekQuickFixProvider.provideCodeActions(document, range, context, token)
ProvideCodeActions ==
  /\ input.op = "provideCodeActions"
  /\ ~output.done
  /\ output' = [done |-> TRUE,
                val |-> provideCodeActions(input.text, input.diagnostics)]
  /\ UNCHANGED <<config, rules, checkerVars, input>>

NextFix == ProvideCodeActions

SpecFix == InitFix /\ [][NextFix]_vars

\* the actions offered for a diagnostic
ActionsOf(d) ==
  {k \in 1..Len(output.val) : output.val[k].diagnostics = <<d>>}

\* the text a range of a one-line document covers
NameAt(d) == SubSeq(input.text, d.range.start.character + 1, d.range.end.character)

\* a name without its prefix, when it has it
Stripped(name, prefix) ==
  IF Len(name) >= 2 /\ SubSeq(name, 1, 2) = prefix
  THEN SubSeq(name, 3, Len(name)) ELSE name

\* the first letter of a name in lower case
Uncapitalized(name) ==
  [k \in 1..Len(name) |-> IF k = 1 THEN LowerOf(name[k]) ELSE name[k]]

\* the replacement text claimed for a naming diagnostic; the kinds of message
\* are tried in the order global variable, static variable, parameter
ClaimedFix(d) ==
  IF Includes(d.message, STR_global_variable)
  THEN <<"g", "_">> \o Stripped(NameAt(d), <<"g", "_">>)
  ELSE IF Includes(d.message, STR_static_variable)
  THEN <<"s", "_">> \o Stripped(NameAt(d), <<"s", "_">>)
  ELSE IF Includes(d.message, STR_parameter)
  THEN Uncapitalized(NameAt(d))
  ELSE NameAt(d)

NamingDiagnostics ==
  {k \in 1..Len(input.diagnostics) :
     /\ input.diagnostics[k].code = NAME_001
     /\ input.diagnostics[k].source = SOURCE_CUBTEK}

\* C11: for a CUBTEK-NAME-001 diagnostic every action offered replaces
\* exactly the diagnostic's range, and the new text is g_ + the name without
\* a leading g_ when the message contains "global variable", s_ + the name
\* without a leading s_ when it contains "static variable", the name with
\* its first character in lower case when it contains "parameter"; the g_
\* fix leaves a name that already has the prefix unchanged.
C11_NamingFix ==
  output.done =>
    \A k \in NamingDiagnostics :
      LET d == input.diagnostics[k]
      IN  /\ ActionsOf(d) # {}
          /\ \A a \in ActionsOf(d) :
               /\ Len(output.val[a].edits) = 1
               /\ output.val[a].edits[1].range = d.range
               /\ output.val[a].edits[1].newText = ClaimedFix(d)
               /\ (Includes(d.message, STR_global_variable)
                     /\ SubSeq(NameAt(d), 1, 2) = <<"g", "_">>)
                    => output.val[a].edits[1].newText = NameAt(d)

\* C11 witness: the g_ fix was offered for the name g_count, and the new
\* text is g_count
C11_Witness ==
  /\ output.done
  /\ Len(input.diagnostics) = 1
  /\ Includes(input.diagnostics[1].message, STR_global_variable)
  /\ NameAt(input.diagnostics[1]) = <<"g", "_", "c", "o", "u", "n", "t">>
  /\ Len(output.val) = 1
  /\ output.val[1].edits[1].newText = <<"g", "_", "c", "o", "u", "n", "t">>


\* the diagnostics the provider looks at: those of the extension's sources
Relevant(d) == d.source = SOURCE_CUBTEK \/ d.source = SOURCE_CLANG_TIDY

ExtractCommand == <<"e", "d", "i", "t", "o", "r", ".", "a", "c", "t", "i", "o", "n", ".", "r", "e", "f", "a", "c", "t", "o", "r", ".", "e", "x", "t", "r", "a", "c", "t">>

OpenCommand == <<"v", "s", "c", "o", "d", "e", ".", "o", "p", "e", "n">>

DocumentationOf(code) ==
  <<"h", "t", "t", "p", "s", ":", "/", "/", "c", "l", "a", "n", "g", ".", "l", "l", "v", "m", ".", "o", "r", "g", "/", "e", "x", "t", "r", "a", "/", "c", "l", "a", "n", "g", "-", "t", "i", "d", "y", "/", "c", "h", "e", "c", "k", "s", "/">> \o code \o <<".", "h", "t", "m", "l">>

\* C12: a CUBTEK-FUNC-001 diagnostic yields one extract-refactor action
\* without a text edit; a diagnostic of the external tool with another rule
\* id yields one open-documentation action for that rule id without a text
\* edit; a diagnostic with another rule id that is not of the external tool
\* yields no action; no diagnostic yields more than one action, and every
\* action belongs to a diagnostic of the context.
C12_Dispatch ==
  output.done =>
    /\ \A k \in 1..Len(input.diagnostics) :
         LET d == input.diagnostics[k]
             n == Cardinality({j \in 1..Len(input.diagnostics) :
                                 input.diagnostics[j] = d})
             acts == ActionsOf(d)
         IN  /\ Cardinality(acts) <= n
             /\ (Relevant(d) /\ d.code = FUNC_001) =>
                  /\ Cardinality(acts) = n
                  /\ \A a \in acts : /\ output.val[a].command = ExtractCommand
                                     /\ output.val[a].edits = <<>>
             /\ (d.source = SOURCE_CLANG_TIDY /\ d.code \notin {FUNC_001, NAME_001, <<>>}) =>
                  /\ Cardinality(acts) = n
                  /\ \A a \in acts : /\ output.val[a].command = OpenCommand
                                     /\ output.val[a].arguments = <<DocumentationOf(d.code)>>
                                     /\ output.val[a].edits = <<>>
             /\ (d.source # SOURCE_CLANG_TIDY /\ d.code \notin {FUNC_001, NAME_001}) =>
                  acts = {}
    /\ Len(output.val) <= Len(input.diagnostics)
    /\ \A a \in 1..Len(output.val) :
         \E k \in 1..Len(input.diagnostics) :
           output.val[a].diagnostics = <<input.diagnostics[k]>>

\* C12 witness: a context with an unknown rule id of the extension's own
\* source and a diagnostic of the external tool got exactly the
\* documentation action
C12_Witness ==
  /\ output.done
  /\ Len(input.diagnostics) = 2
  /\ input.diagnostics[1].source = SOURCE_CUBTEK
  /\ input.diagnostics[1].code = <<"C", "U", "B", "T", "E", "K", "-", "S", "T", "Y", "L", "E", "-", "0", "0", "1">>
  /\ input.diagnostics[2].source = SOURCE_CLANG_TIDY
  /\ input.diagnostics[2].code = ClangUnusedVariable
  /\ Len(output.val) = 1
  /\ output.val[1].command = OpenCommand

(***************************************************************************)
(* Registry and configuration (SpecConfig).                                *)
(***************************************************************************)
\* what the configuration prescribes for a rule instance: the entry's enabled
\* flag and, when the entry names a severity, that severity
Prescribed(cfg, id, rule) ==
  hasRuleConfig(cfg, id) =>
    /\ rule.enabled = getRuleConfig(cfg, id).enabled
    /\ getRuleConfig(cfg, id).severity # "" =>
         rule.severity = SeverityNamed(getRuleConfig(cfg, id).severity)

\* C13: after any sequence of configuration changes every rule instance has
\* the enabled flag and the severity that the current configuration
\* prescribes, so that getEnabledRules and the severity of a rule's next
\* diagnostic follow the latest configuration.
C13_RegistryFollowsConfig ==
  /\ \A id \in RuleIdSet : Prescribed(config, id, rules[id])
  /\ getEnabledRules(rules) = getEnabledRules(newRuleRegistry(config))
  /\ (output.done /\ output.op = "Rule.createDiagnostic" /\ HasExplicitSeverity) =>
       output.val.severity = SeverityNamed(getRuleConfig(config, output.ruleId).severity)

(***************************************************************************)
(* SpecRegistry: the RuleRegistry constructor on a configuration whose     *)
(* rules object has entries for any of the registered ids and for an id    *)
(* that is not registered.                                                 *)
(***************************************************************************)
UnregisteredId == <<"C", "U", "B", "T", "E", "K", "-", "S", "T", "Y", "L", "E", "-", "0", "0", "1">>

RegistryEntries ==
  [enabled : BOOLEAN, severity : {""} \cup SeverityStrings, maxLines : {0}]

RegistryConfigs ==
  UNION {[severity : {"warning"}, rules : [ids -> RegistryEntries]] :
           ids \in SUBSET (RuleIdSet \cup {UnregisteredId})}

\* the rules as registerRule leaves them
RegisteredRules == [id \in RuleIdSet |-> newRule(id)]

InitRegistry ==
  /\ input \in {[op |-> "new RuleRegistry", config |-> cfg] : cfg \in RegistryConfigs}
  /\ config = input.config
  /\ rules = RegisteredRules
  /\ CheckerIdle
  /\ output = NoOutput

\* new RuleRegistry(configManager): registerRule twice, then configureRules
NewRuleRegistry ==
  /\ input.op = "new RuleRegistry"
  /\ ~output.done
  /\ rules' = newRuleRegistry(config)
  /\ output' = [done |-> TRUE, val |-> getEnabledRules(rules')]
  /\ UNCHANGED <<config, checkerVars, input>>

NextRegistry == NewRuleRegistry

SpecRegistry == InitRegistry /\ [][NextRegistry]_vars

C15_TempFileRemoved == pc = "returned" => ~tempFile

(***************************************************************************)
(* SpecProject: the command cubtek.checkProject.  The callback given to    *)
(* withProgress opens and checks the files one after the other; the user   *)
(* may cancel at any moment.  Each action is one turn of the callback: up  *)
(* to its next await.                                                      *)
(***************************************************************************)
\* the files findFiles may return
ProjectFiles ==
  {[uri |-> "a.c", text |-> <<"s", "t", "a", "t", "i", "c", " ", "i", "n", "t", " ", "c", "o", "u", "n", "t", ";", "\n">>, languageId |-> "c"],
   [uri |-> "b.cpp", text |-> <<"i", "n", "t", " ", "g", "_", "x", ";", "\n">>, languageId |-> "cpp"],
   [uri |-> "c.h", text |-> <<"v", "o", "i", "d", " ", "B", "a", "d", "_", "n", "a", "m", "e", "(", ")", " ", "{", "\n", "}", "\n">>, languageId |-> "c"]}

MaxFiles == 3

\* lists of distinct files
ProjectFileLists ==
  UNION {{fs \in [1..n -> ProjectFiles] : \A i, j \in 1..n : fs[i] = fs[j] => i = j} :
           n \in 0..MaxFiles}

\* a token that is never seen cancelled
shouldBreak_never(token) == FALSE

\* if (token.isCancellationRequested) break
shouldBreak(token) == token.isCancellationRequested

\* the head of the for loop for the file at index: leave the loop and show
\* the count, or call openTextDocument
loopTop(p) ==
  IF p.index > Len(p.files) \/ shouldBreak(p)
  THEN [p EXCEPT !.phase = "done", !.reported = p.checked]
  ELSE [p EXCEPT !.phase = "opening", !.opened = @ + 1]

InitProject ==
  /\ config = DefaultConfig
  /\ rules = newRuleRegistry(config)
  /\ CheckerIdle
  /\ input = NoInput
  /\ output = NoOutput

\* the command handler: findFiles resolves and the callback starts
CheckProject(files) ==
  /\ project.phase \in {"none", "done"}
  /\ pc \in {"idle", "returned"}
  /\ project' = loopTop([phase |-> "loop", files |-> files, index |-> 1,
                         opened |-> 0, checked |-> 0,
                         isCancellationRequested |-> FALSE,
                         published |-> <<>>, reported |-> -1])
  /\ UNCHANGED <<config, rules, pc, document, languageId, throwing, tempFile,
                 analyzer, stdout, result, errorMessages, CPP_PATTERNS,
                 overlapVars, input, output>>

\* openTextDocument resolves: checker.checkDocument(document) is called
DocumentOpened(thrown, setup) ==
  /\ project.phase = "opening"
  /\ callCheckDocument(project.files[project.index].text,
                       project.files[project.index].languageId, thrown, setup)
  /\ project' = [project EXCEPT !.phase = "checking"]

\* checkDocument resolves: diagnosticCollection.set, checked++,
\* progress.report, then the head of the loop for the next file
DocumentChecked ==
  /\ project.phase = "checking"
  /\ pc = "returned"
  /\ project' = loopTop([project EXCEPT
                           !.published = Append(@, [uri |-> project.files[project.index].uri,
                                                    diagnostics |-> result]),
                           !.checked = @ + 1,
                           !.index = @ + 1])
  /\ UNCHANGED <<config, rules, pc, document, languageId, throwing, tempFile,
                 analyzer, stdout, result, errorMessages, CPP_PATTERNS,
                 overlapVars, input, output>>

\* the user cancels the progress notification
Cancel ==
  /\ project.phase \in {"opening", "checking"}
  /\ ~project.isCancellationRequested
  /\ project' = [project EXCEPT !.isCancellationRequested = TRUE]
  /\ UNCHANGED <<config, rules, pc, document, languageId, throwing, tempFile,
                 analyzer, stdout, result, errorMessages, CPP_PATTERNS,
                 overlapVars, input, output>>

NextProject ==
  \/ \E files \in ProjectFileLists : CheckProject(files)
  \/ \E thrown \in {{}, {NAME_001}}, setup \in SetupOutcomes :
       DocumentOpened(thrown, setup)
  \/ \E out \in AnalyzerOutputs : AnalyzerClose(out)
  \/ \E err \in SpawnErrors : AnalyzerError(err)
  \/ DocumentChecked
  \/ Cancel

SpecProject == InitProject /\ [][NextProject]_vars

\* the command is running
ProjectRunning == project.phase \in {"opening", "checking"}

\* at most one document is in progress, the documents completed are the first
\* ones of the list, each has been published once, and the count shown at the
\* end is their number
ProjectOrderly ==
  /\ project.opened - project.checked = (IF ProjectRunning THEN 1 ELSE 0)
  /\ ProjectRunning => pc # "analyzer" \/ project.phase = "checking"
  /\ Len(project.published) = project.checked
  /\ \A k \in 1..project.checked : project.published[k].uri = project.files[k].uri
  /\ project.phase = "done" => project.reported = project.checked

\* a step of a running command opens no document once cancellation has been
\* requested, and publishes the result of the check that has just completed
ProjectStep ==
  ProjectRunning =>
    /\ project.isCancellationRequested => project'.opened = project.opened
    /\ project'.checked # project.checked =>
         /\ pc = "returned"
         /\ project'.checked = project.checked + 1
         /\ project'.published[project'.checked] =
              [uri |-> project.files[project.checked + 1].uri, diagnostics |-> result]

\* C16: the project-wide check processes one document at a time; once
\* cancellation is requested no further document is opened or checked;
\* every document whose check completed has its diagnostics published, and
\* the count reported equals the number of completed documents.
C16_CancellableProjectCheck == [](ProjectOrderly) /\ [][ProjectStep]_vars

\* C16 witness: of three files one was checked and published when the
\* command, cancelled during that check, reported one file
C16_Witness ==
  /\ project.phase = "done"
  /\ project.isCancellationRequested
  /\ Len(project.files) = 3
  /\ project.reported = 1
  /\ Len(project.published) = 1
  /\ project.published[1].diagnostics # <<>>

(***************************************************************************)
(* DiagnosticUtility.filterAndSortDiagnostics.                             *)
(*                                                                         *)
(* An optional argument is [given |-> FALSE] when it is left undefined and *)
(* [given |-> TRUE, value |-> v] otherwise.                                *)
(***************************************************************************)
Undefined == [given |-> FALSE]

Given(v) == [given |-> TRUE, value |-> v]

\* a comparator that looks at the severity only
compareDiagnostics_severity(a, b) == a.severity - b.severity

\* the comparator given to sort
compareDiagnostics(a, b) ==
  IF a.severity # b.severity THEN a.severity - b.severity
  ELSE a.range.start.line - b.range.start.line

\* a faulty insertion that puts an element before the elements it compares
\* equal to
insertSorted_before(sorted, d) ==
  LET before == {k \in 0..Len(sorted) :
                   \A j \in 1..k : compareDiagnostics(sorted[j], d) < 0}
      k == CHOOSE k \in before : \A other \in before : other <= k
  IN  SubSeq(sorted, 1, k) \o <<d>> \o SubSeq(sorted, k + 1, Len(sorted))

\* Array.prototype.sort is stable: an element goes behind the elements of
\* the sorted part that do not compare greater than it
insertSorted(sorted, d) ==
  LET before == {k \in 0..Len(sorted) :
                   \A j \in 1..k : compareDiagnostics(sorted[j], d) <= 0}
      k == CHOOSE k \in before : \A other \in before : other <= k
  IN  SubSeq(sorted, 1, k) \o <<d>> \o SubSeq(sorted, k + 1, Len(sorted))

RECURSIVE sortDiagnostics(_, _)
\* filtered.sort(compare): the elements of list are brought into sorted
sortDiagnostics(sorted, list) ==
  IF list = <<>> THEN sorted
  ELSE sortDiagnostics(insertSorted(sorted, Head(list)), Tail(list))

\* d.code ? d.code.toString() : ""
codeString(d) == d.code

\* ruleFilter.some((rule) => ruleId.includes(rule))
someIncludes(ruleFilter, ruleId) ==
  \E k \in 1..Len(ruleFilter) : Includes(ruleId, ruleFilter[k])

\* filterAndSortDiagnostics: what it returns, and the array it was given as
\* the call leaves it (the work is done on a copy)
filterAndSortDiagnostics(diagnostics, severityThreshold, ruleFilter) ==
  LET copy == diagnostics
      bySeverity ==
        IF severityThreshold.given
        THEN SelectSeq(copy, LAMBDA d : d.severity <= severityThreshold.value)
        ELSE copy
      byRule ==
        IF ruleFilter.given /\ Len(ruleFilter.value) > 0
        THEN SelectSeq(bySeverity, LAMBDA d : someIncludes(ruleFilter.value, codeString(d)))
        ELSE bySeverity
  IN  [returned |-> sortDiagnostics(<<>>, byRule), diagnostics |-> diagnostics]

(***************************************************************************)
(* SpecFilter: filterAndSortDiagnostics on short lists of diagnostics.     *)
(***************************************************************************)
MaxDiagnostics == 3

MaxFilterLine == 1

\* diagnostics of two severities on the first lines with two rule ids, a
\* hint, and a diagnostic without a code
FilterDiagnostics ==
  {[range |-> Range(Position(l, 0), Position(l, 1)), message |-> <<"m">>,
    severity |-> s, source |-> SOURCE_CUBTEK, code |-> c] :
     l \in 0..MaxFilterLine, s \in {SevError, SevWarning},
     c \in {FUNC_001, <<"m", "i", "s", "c", "-", "x">>}}
  \cup
  {[range |-> Range(Position(0, 0), Position(0, 1)), message |-> <<"m">>,
    severity |-> SevHint, source |-> SOURCE_CUBTEK, code |-> FUNC_001],
   [range |-> Range(Position(0, 0), Position(0, 1)), message |-> <<"m">>,
    severity |-> SevWarning, source |-> SOURCE_CUBTEK, code |-> <<>>]}

FilterLists == UNION {[1..n -> FilterDiagnostics] : n \in 0..MaxDiagnostics}

FilterThresholds == {Undefined, Given(SevError), Given(SevWarning)}

FilterRules ==
  {Undefined, Given(<<>>), Given(<<<<"C", "U", "B", "T", "E", "K", "-", "S", "T", "Y", "L", "E">>, <<"F", "U", "N", "C">>>>)}

FilterInputs ==
  {[op |-> "filterAndSortDiagnostics", diagnostics |-> ds,
    severityThreshold |-> th, ruleFilter |-> rf] :
     ds \in FilterLists, th \in FilterThresholds, rf \in FilterRules}

InitFilter ==
  /\ config = DefaultConfig
  /\ rules = newRuleRegistry(config)
  /\ CheckerIdle
  /\ input \in FilterInputs
  /\ output = NoOutput

\* DiagnosticUtility.filterAndSortDiagnostics(diagnostics, severityThreshold,
\* ruleFilter)
FilterAndSortDiagnostics ==
  /\ input.op = "filterAndSortDiagnostics"
  /\ ~output.done
  /\ output' = [done |-> TRUE,
                val |-> filterAndSortDiagnostics(input.diagnostics,
                          input.severityThreshold, input.ruleFilter)]
  /\ UNCHANGED <<config, rules, checkerVars, input>>

NextFilter == FilterAndSortDiagnostics

SpecFilter == InitFilter /\ [][NextFilter]_vars

\* C17: filtering and sorting the returned list again with the same
\* threshold and rule filter returns that list, element by element.
C17_Idempotent ==
  output.done =>
    filterAndSortDiagnostics(output.val.returned, input.severityThreshold,
                             input.ruleFilter).returned = output.val.returned

\* C17 witness: a list that the call both shortened and reordered
C17_Witness ==
  /\ output.done
  /\ Len(input.diagnostics) = 3
  /\ Len(output.val.returned) = 2
  /\ output.val.returned[1] = input.diagnostics[3]
  /\ output.val.returned[2] = input.diagnostics[1]

\* the places of the input list whose diagnostic is to be kept
Kept ==
  {k \in 1..Len(input.diagnostics) :
     /\ input.severityThreshold.given =>
          input.diagnostics[k].severity <= input.severityThreshold.value
     /\ (input.ruleFilter.given /\ input.ruleFilter.value # <<>>) =>
          \E f \in 1..Len(input.ruleFilter.value) :
            Includes(input.diagnostics[k].code, input.ruleFilter.value[f])}

\* place j comes before place k in the claimed order
Precedes(j, k) ==
  LET a == input.diagnostics[j]
      b == input.diagnostics[k]
  IN  \/ a.severity < b.severity
      \/ a.severity = b.severity /\ a.range.start.line < b.range.start.line
      \/ a.severity = b.severity /\ a.range.start.line = b.range.start.line /\ j < k

\* C18: the returned list holds exactly the input diagnostics whose severity
\* is at most the threshold, when one is given (Error included), and whose
\* rule id contains one of the filter strings, when a non-empty filter is
\* given, ordered by severity, then start line, then place in the input;
\* the input list is as it was.
C18_FilteredAndSorted ==
  output.done =>
    /\ Len(output.val.returned) = Cardinality(Kept)
    /\ \A k \in Kept :
         output.val.returned[Cardinality({j \in Kept : Precedes(j, k)}) + 1]
           = input.diagnostics[k]
    /\ output.val.diagnostics = input.diagnostics

\* C18 witness: threshold Error kept the two errors of a list, which share a
\* line and stay in their order, and dropped the warning before them
C18_Witness ==
  /\ output.done
  /\ input.severityThreshold = Given(SevError)
  /\ Len(input.diagnostics) = 3
  /\ input.diagnostics[1].severity = SevWarning
  /\ input.diagnostics[2].code # input.diagnostics[3].code
  /\ output.val.returned = <<input.diagnostics[2], input.diagnostics[3]>>


\* C19: when the analyzer exits and no rule throws, checkDocument returns the
\* analyzer's diagnostics followed by the diagnostics of each enabled rule in
\* registration order; nothing is dropped, merged or deduplicated, so the
\* length of the result is the sum of the lengths of the streams.
C19_Concatenation ==
  (pc = "returned" /\ analyzer = "exited" /\ throwing = {}) =>
    /\ result = ExternalFindings \o LocalFindings(RuleIds[1]) \o LocalFindings(RuleIds[2])
    /\ Len(result) = Len(parseClangTidyOutput(stdout, document))
                     + Len(LocalFindings(FUNC_001)) + Len(LocalFindings(NAME_001))

\* C19 witness: two analyzer diagnostics, one function-length and one naming
\* diagnostic were returned in that order, the first and the last of them on
\* the same line
C19_Witness ==
  /\ pc = "returned"
  /\ analyzer = "exited"
  /\ throwing = {}
  /\ Len(result) = 4
  /\ result[1].source = SOURCE_CLANG_TIDY
  /\ result[2].source = SOURCE_CLANG_TIDY
  /\ result[3].code = FUNC_001
  /\ result[4].code = NAME_001
  /\ result[1].range.start.line = result[4].range.start.line

(***************************************************************************)
(* SpecShared: successive checks with the NamingConventionRule that takes  *)
(* its patterns from CPP_PATTERNS.  The two patterns are global regular    *)
(* expressions shared by all checks: exec starts at the pattern's          *)
(* lastIndex, sets it to the end of the match, and sets it to 0 when       *)
(* nothing matches.  A check ends abnormally when the body of one of its   *)
(* loops throws.                                                           *)
(***************************************************************************)
RECURSIVE matchEnds(_, _, _)
\* the values lastIndex takes in a loop  while ((match = re.exec(text)))
matchEnds(re, text, from) ==
  LET match == Exec(re, text, from)
  IN  IF ~match.found THEN <<>>
      ELSE <<match.end>> \o matchEnds(re, text, match.end)

\* a check that ends normally
NoThrow == [loop |-> "none", iteration |-> 0]

\* NamingConventionRule.check with the shared patterns as they stand; stop
\* names the loop and the iteration whose body throws, if any.  Gives the
\* diagnostics returned and the patterns as the call leaves them.
sharedCheck(text, patterns, severity, stop) ==
  LET globalEnds == matchEnds(GLOBAL_VAR, text, patterns.GLOBAL_VAR.lastIndex)
      functionEnds == matchEnds(FUNCTION, text, patterns.FUNCTION.lastIndex)
  IN  IF stop.loop = "GLOBAL_VAR" /\ stop.iteration <= Len(globalEnds)
      THEN [threw |-> TRUE, diagnostics |-> <<>>,
            patterns |-> [patterns EXCEPT
                            !.GLOBAL_VAR.lastIndex = globalEnds[stop.iteration]]]
      ELSE IF stop.loop = "FUNCTION" /\ stop.iteration <= Len(functionEnds)
      THEN [threw |-> TRUE, diagnostics |-> <<>>,
            patterns |-> [GLOBAL_VAR |-> [lastIndex |-> 0],
                          FUNCTION |-> [lastIndex |-> functionEnds[stop.iteration]]]]
      ELSE [threw |-> FALSE,
            diagnostics |->
              GlobalVarPass(text, patterns.GLOBAL_VAR.lastIndex, severity)
              \o FunctionNamePass(text, patterns.FUNCTION.lastIndex, severity),
            patterns |-> [GLOBAL_VAR |-> [lastIndex |-> 0],
                          FUNCTION |-> [lastIndex |-> 0]]]

SharedDocs ==
  {<<"s", "t", "a", "t", "i", "c", " ", "i", "n", "t", " ", "c", "o", "u", "n", "t", ";", "\n">>,
   <<"s", "t", "a", "t", "i", "c", " ", "i", "n", "t", " ", "t", "o", "t", "a", "l", ";", "\n", "s", "t", "a", "t", "i", "c", " ", "i", "n", "t", " ", "g", "_", "o", "k", ";", "\n", "s", "t", "a", "t", "i", "c", " ", "i", "n", "t", " ", "n", ";", "\n">>,
   <<"v", "o", "i", "d", " ", "B", "a", "d", "_", "n", "a", "m", "e", "(", ")", " ", "{", "\n", "}", "\n">>,
   <<"s", "t", "a", "t", "i", "c", " ", "i", "n", "t", " ", "a", ";", "\n", "v", "o", "i", "d", " ", "B", "a", "d", "_", "n", "a", "m", "e", "(", ")", " ", "{", "\n", "}", "\n", "v", "o", "i", "d", " ", "W", "o", "r", "s", "e", "_", "n", "a", "m", "e", "(", ")", " ", "{", "\n", "}", "\n">>,
   <<"i", "n", "t", " ", "g", "_", "x", ";", "\n">>}

MaxIteration == 2

Stops ==
  {NoThrow} \cup [loop : {"GLOBAL_VAR", "FUNCTION"}, iteration : 1..MaxIteration]

\* the configurations the rule is constructed under: one per severity
SharedConfigs ==
  {[severity |-> "warning",
    rules |-> mergeRules(defaultRules,
                [id \in {NAME_001} |->
                   [enabled |-> TRUE, severity |-> sev, maxLines |-> 0]])] :
     sev \in SeverityStrings}

InitShared ==
  /\ config \in SharedConfigs
  /\ rules = newRuleRegistry(config)
  /\ CheckerIdle
  /\ input = NoInput
  /\ output = NoOutput

\* one call of NamingConventionRule.check(document) by runCustomRuleChecks
SharedCheck(text, stop) ==
  LET call == sharedCheck(text, CPP_PATTERNS, rules[NAME_001].severity, stop)
  IN  /\ stop = NoThrow \/ call.threw
      /\ document' = text
      /\ CPP_PATTERNS' = call.patterns
      /\ output' = [done |-> TRUE, threw |-> call.threw, val |-> call.diagnostics]
      /\ UNCHANGED <<config, rules, pc, languageId, throwing, tempFile, analyzer,
                     stdout, result, errorMessages, project, overlapVars,
                     input>>

NextShared == \E text \in SharedDocs, stop \in Stops : SharedCheck(text, stop)

SpecShared == InitShared /\ [][NextShared]_vars

SegmentKinds ==
  {[closed |-> TRUE, body |-> 1], [closed |-> TRUE, body |-> maxLines - 2],
   [closed |-> TRUE, body |-> maxLines - 1], [closed |-> TRUE, body |-> maxLines],
   [closed |-> FALSE, body |-> 1], [closed |-> FALSE, body |-> maxLines]}

ShortKinds == {kind \in SegmentKinds : kind.body = 1}

SegmentLists ==
  [1..1 -> SegmentKinds] \cup [1..2 -> SegmentKinds]
  \cup {kinds \in [1..3 -> SegmentKinds] : kinds[1] \in ShortKinds /\ kinds[2] \in ShortKinds}

SegmentName(k) == <<"f", DigitChar(k)>>

\* the text of the k-th function of a document
SegmentText(k, kind) ==
  <<"v", "o", "i", "d", " ">> \o SegmentName(k) \o <<"(", ")", " ", "{", NL>>
  \o Repeat(<<"x", ";", NL>>, kind.body)
  \o (IF kind.closed THEN <<"}", NL>> ELSE <<>>)

RECURSIVE SegmentsText(_, _)
SegmentsText(kinds, k) ==
  IF k > Len(kinds) THEN <<>>
  ELSE SegmentText(k, kinds[k]) \o SegmentsText(kinds, k + 1)

UnclosedInputs ==
  {[op |-> "FunctionLengthRule.check", kinds |-> kinds,
    text |-> SegmentsText(kinds, 1)] : kinds \in SegmentLists}

InitUnclosed ==
  /\ config = DefaultConfig
  /\ rules = newRuleRegistry(config)
  /\ CheckerIdle
  /\ input \in UnclosedInputs
  /\ output = NoOutput

NextUnclosed == FunctionLengthCheck

SpecUnclosed == InitUnclosed /\ [][NextUnclosed]_vars

\* the lines the k-th function of the document occupies
SegmentLines(k) ==
  1 + input.kinds[k].body + (IF input.kinds[k].closed THEN 1 ELSE 0)

RECURSIVE SegmentStartLine(_)
SegmentStartLine(k) ==
  IF k = 1 THEN 0 ELSE SegmentStartLine(k - 1) + SegmentLines(k - 1)

\* the closed functions of the document that are over the limit
OverLimit ==
  {k \in 1..Len(input.kinds) : input.kinds[k].closed /\ SegmentLines(k) > maxLines}

\* C21: a function whose block is never closed gets no finding and raises
\* nothing, and every function after it is still examined: the findings are
\* exactly those of the closed functions over the limit, in document order.
C21_UnclosedSkipped ==
  output.done =>
    /\ Len(output.val) = Cardinality(OverLimit)
    /\ \A k \in OverLimit :
         LET d == output.val[Cardinality({j \in OverLimit : j <= k})]
         IN  /\ d.range.start.line = SegmentStartLine(k)
             /\ d.message = FUNCTION_LENGTH(SegmentName(k), SegmentLines(k), maxLines)

\* C21 witness: a short function, a function that is never closed, then a
\* function over the limit, which got the only finding
C21_Witness ==
  /\ output.done
  /\ Len(input.kinds) = 3
  /\ input.kinds[1].closed
  /\ ~input.kinds[2].closed
  /\ input.kinds[3] = [closed |-> TRUE, body |-> maxLines]
  /\ Len(output.val) = 1
  /\ Includes(output.val[1].message, SegmentName(3))

(***************************************************************************)
(* SpecFuncName: NamingConventionRule.check on documents that hold one or  *)
(* two function definitions, after a global declaration or none.           *)
(***************************************************************************)
DefinedNames ==
  {<<"p", "r", "o", "c", "e", "s", "s", "D", "a", "t", "a">>, <<"P", "r", "o", "c", "e", "s", "s", "D", "a", "t", "a">>, <<"x">>, <<"X", "9">>, <<"a", "1", "B", "2">>, <<"B", "a", "d", "_", "n", "a", "m", "e">>, <<"g", "e", "t", "_", "v", "a", "l", "u", "e">>, <<"_", "i", "n", "i", "t">>, <<"9", "l", "i", "v", "e", "s">>}

SecondNames == {<<"r", "u", "n">>, <<"D", "o", "_", "i", "t">>, <<"s", "t", "o", "p", "_">>}

\* the global declaration before the functions, with the name it declares
DeclarationsBefore ==
  {[text |-> <<>>, findings |-> <<>>],
   [text |-> <<"s", "t", "a", "t", "i", "c", " ", "i", "n", "t", " ", "c", "o", "u", "n", "t", ";", "\n">>, findings |-> <<<<"c", "o", "u", "n", "t">>>>],
   [text |-> <<"s", "t", "a", "t", "i", "c", " ", "i", "n", "t", " ", "g", "_", "n", ";", "\n">>, findings |-> <<>>]}

ReturnTypes == {<<"v", "o", "i", "d">>, <<"i", "n", "t">>}

ParameterLists == {<<"(", ")">>, <<"(", "i", "n", "t", " ", "a", ")">>}

Definition(type, name, params) ==
  type \o <<" ">> \o name \o params \o <<" ", "{", NL, "}", NL>>

FuncNameInputs ==
  {[op |-> "NamingConventionRule.check",
    text |-> pre.text \o Definition(type, name, params)
             \o (IF second = <<>> THEN <<>> ELSE Definition(type, second, params)),
    globals |-> pre.findings,
    functions |-> IF second = <<>> THEN <<name>> ELSE <<name, second>>] :
     pre \in DeclarationsBefore, type \in ReturnTypes, name \in DefinedNames,
     params \in ParameterLists, second \in {<<>>} \cup SecondNames}

InitFuncName ==
  /\ config = DefaultConfig
  /\ rules = newRuleRegistry(config)
  /\ CheckerIdle
  /\ input \in FuncNameInputs
  /\ output = NoOutput

NextFuncName == NamingCheck

SpecFuncName == InitFuncName /\ [][NextFuncName]_vars

Letters ==
  {"a", "b", "c", "d", "e", "f", "g", "h", "i", "j", "k", "l", "m", "n", "o", "p",
   "q", "r", "s", "t", "u", "v", "w", "x", "y", "z",
   "A", "B", "C", "D", "E", "F", "G", "H", "I", "J", "K", "L", "M", "N", "O", "P",
   "Q", "R", "S", "T", "U", "V", "W", "X", "Y", "Z"}

\* camelCase or PascalCase: a letter followed by letters and digits
CamelOrPascal(name) ==
  /\ name # <<>>
  /\ name[1] \in Letters
  /\ \A k \in 2..Len(name) :
       name[k] \in Letters \cup {"0", "1", "2", "3", "4", "5", "6", "7", "8", "9"}

\* the messages of the findings, in the order returned
MessagesOf(findings) == [k \in 1..Len(findings) |-> findings[k].message]

SemicolonsAfter(text, L, C) ==
  {c \in (C - 1)..(LineLengthOf(text, L) - 1) :
     \E o \in 0..(Len(text) - 1) :
       /\ LineOfOffset(text, o) = L - 1
       /\ Cardinality({k \in 0..(o - 1) : LineOfOffset(text, k) = L - 1}) = c
       /\ text[o + 1] = ";"}

\* the end column claimed for a diagnostic reported at line L, column C
ClaimedEndColumn(text, L, C) ==
  IF SemicolonsAfter(text, L, C) # {}
  THEN CHOOSE c \in SemicolonsAfter(text, L, C) :
         \A other \in SemicolonsAfter(text, L, C) : c <= other
  ELSE LineLengthOf(text, L)

\* C23: the range of an adapted diagnostic ends at the offset of the first
\* semicolon of its line at or after the reported column when there is one,
\* and at the end of the line otherwise.
C23_EndColumn ==
  (output.done /\ ShapedLine /\ Convertible) =>
    IF input.op = "parseClangTidyOutput"
    THEN \A k \in 1..Len(output.val) :
           output.val[k].range.end.character
             = ClaimedEndColumn(input.text, input.L, input.C)
    ELSE ~output.val.threw =>
           output.val.range.end.character
             = ClaimedEndColumn(input.text, input.L, input.C)

(***************************************************************************)
(* SpecBatch: CubtekChecker.parseClangTidyOutput on outputs of several     *)
(* lines, some of which are no diagnostics or cannot be converted.         *)
(***************************************************************************)
MaxBatch == 3

BatchDoc == <<"i", "n", "t", " ", "x", ";", "\n", "i", "n", "t", " ", "y", ";">>

\* kinds of output line: two diagnostics of the document, lines that are no
\* diagnostics, and diagnostics whose place is outside the document
BatchLines ==
  {[good |-> TRUE, L |-> 1, C |-> 5, ruleId |-> ClangUnusedVariable,
    text |-> TidyLine(1, 5, STR_warning,
                      [message |-> UnusedVariable, ruleId |-> ClangUnusedVariable])],
   [good |-> TRUE, L |-> 2, C |-> 1, ruleId |-> <<"m", "i", "s", "c", "-", "x">>,
    text |-> TidyLine(2, 1, STR_error,
                      [message |-> UnusedVariable, ruleId |-> <<"m", "i", "s", "c", "-", "x">>])],
   [good |-> FALSE, L |-> 0, C |-> 0, ruleId |-> <<>>, text |-> SummaryLine],
   [good |-> FALSE, L |-> 0, C |-> 0, ruleId |-> <<>>, text |-> <<>>],
   [good |-> FALSE, L |-> 0, C |-> 0, ruleId |-> <<>>,
    text |-> TidyLine(1, 5, STR_note,
                      [message |-> UnusedVariable, ruleId |-> ClangUnusedVariable])],
   [good |-> FALSE, L |-> 0, C |-> 0, ruleId |-> <<>>,
    text |-> TidyLine(99, 1, STR_warning,
                      [message |-> UnusedVariable, ruleId |-> ClangUnusedVariable])],
   [good |-> FALSE, L |-> 0, C |-> 0, ruleId |-> <<>>,
    text |-> TidyLine(0, 1, STR_warning,
                      [message |-> UnusedVariable, ruleId |-> ClangUnusedVariable])],
   [good |-> FALSE, L |-> 0, C |-> 0, ruleId |-> <<>>,
    text |-> TidyLine(1, 0, STR_error,
                      [message |-> UnusedVariable, ruleId |-> ClangUnusedVariable])]}

RECURSIVE JoinLines(_)
\* the lines of an output joined by line breaks
JoinLines(batch) ==
  IF batch = <<>> THEN <<>>
  ELSE IF Len(batch) = 1 THEN batch[1].text
  ELSE batch[1].text \o <<NL>> \o JoinLines(Tail(batch))

BatchInputs ==
  UNION {{[op |-> "parseClangTidyOutput", text |-> BatchDoc, batch |-> batch,
           stdout |-> JoinLines(batch)] : batch \in [1..n -> BatchLines]} :
           n \in 1..MaxBatch}

InitBatch ==
  /\ config = DefaultConfig
  /\ rules = newRuleRegistry(config)
  /\ CheckerIdle
  /\ input \in BatchInputs
  /\ output = NoOutput

NextBatch == ParseClangTidyOutput

SpecBatch == InitBatch /\ [][NextBatch]_vars

\* the diagnostics of the output: its lines that report a place of the
\* document in the expected shape
GoodLines == SelectSeq(input.batch, LAMBDA l : l.good)

\* C24: lines that do not have the expected shape and lines that cannot be
\* converted are skipped; every other line of the same output yields its
\* diagnostic, in the order of the output, and the adapter returns.
C24_BadLinesSkipped ==
  output.done =>
    /\ Len(output.val) = Len(GoodLines)
    /\ \A k \in 1..Len(GoodLines) :
         /\ output.val[k].range.start =
              [line |-> GoodLines[k].L - 1, character |-> GoodLines[k].C - 1]
         /\ output.val[k].code = GoodLines[k].ruleId

\* C24 witness: a line beyond the document, a summary line and a diagnostic
\* of line 2 gave the one diagnostic of line 2
C24_Witness ==
  /\ output.done
  /\ Len(input.batch) = 3
  /\ input.batch[1].text = TidyLine(99, 1, STR_warning,
                             [message |-> UnusedVariable, ruleId |-> ClangUnusedVariable])
  /\ input.batch[2].text = SummaryLine
  /\ input.batch[3].good
  /\ input.batch[3].L = 2
  /\ Len(output.val) = 1
  /\ output.val[1].range.start.line = 1

(***************************************************************************)
(* SpecLive: checkDocument with an analyzer that may never exit.  A        *)
(* process that is running and not hung exits sooner or later, and Node    *)
(* then runs the 'close' or the 'error' handler; runClangTidy registers no *)
(* other handler and starts no timer.                                      *)
(***************************************************************************)
\* the analyzer process stops making progress: it will neither close nor
\* emit an error
AnalyzerHangs ==
  /\ pc = "analyzer"
  /\ analyzer = "running"
  /\ analyzer' = "hung"
  /\ UNCHANGED <<config, rules, pc, document, languageId, throwing, tempFile,
                 stdout, result, errorMessages, CPP_PATTERNS, project,
                 overlapVars, input, output>>

\* the analyzer exits: one of the two handlers runs
AnalyzerExits ==
  \/ \E err \in SpawnErrors : AnalyzerError(err)
  \/ \E out \in AnalyzerOutputs : AnalyzerClose(out)

NextLive ==
  \/ \E text \in CheckedDocs, lang \in LanguageIds, thrown \in SUBSET RuleIdSet,
        setup \in SetupOutcomes : CheckDocument(text, lang, thrown, setup)
  \/ AnalyzerExits
  \/ AnalyzerHangs

SpecLive == Init /\ [][NextLive]_vars /\ WF_vars(AnalyzerExits)

\* C25: every checkDocument call completes: a call that awaits the analyzer
\* eventually returns, also when the analyzer never exits.
C25_CheckDocumentReturns == (pc = "analyzer") ~> (pc = "returned")

(***************************************************************************)
(* SpecEndToEnd: a declaration is checked by NamingConventionRule, the     *)
(* quick fix offered for one of its findings is applied to the text, and   *)
(* the fixed text is checked again.                                        *)
(***************************************************************************)
\* WorkspaceEdit.replace(uri, range, newText) applied to the text
applyEdit(text, edit) ==
  SubSeq(text, 1, OffsetAt(text, edit.range.start))
  \o edit.newText
  \o SubSeq(text, OffsetAt(text, edit.range.end) + 1, Len(text))

EndToEndInputs ==
  {[op |-> "endToEnd", text |-> i.text, declOffset |-> i.declOffset,
    name |-> i.name] : i \in NamingInputs}

InitEndToEnd ==
  /\ config = DefaultConfig
  /\ rules = newRuleRegistry(config)
  /\ CheckerIdle
  /\ input \in EndToEndInputs
  /\ output = NoOutput

\* checkFile: the rule runs on the saved text and its findings are published
EndToEndCheck ==
  /\ input.op = "endToEnd"
  /\ ~output.done
  /\ output = NoOutput
  /\ output' = [done |-> FALSE, phase |-> "checked", text |-> input.text,
                diagnostics |-> NamingConventionRule_check(input.text,
                                  rules[NAME_001].severity),
                fixed |-> <<>>, newText |-> <<>>]
  /\ UNCHANGED <<config, rules, checkerVars, input>>

\* the user picks the quick fix of the k-th published finding: the provider
\* is asked for the actions of that finding and the edit of the first one
\* is applied
EndToEndFix(k) ==
  /\ input.op = "endToEnd"
  /\ ~output.done
  /\ output # NoOutput
  /\ output.phase = "checked"
  /\ k \in 1..Len(output.diagnostics)
  /\ LET actions == provideCodeActions(output.text, <<output.diagnostics[k]>>)
     IN  /\ actions # <<>>
         /\ actions[1].edits # <<>>
         /\ output' = [output EXCEPT
                         !.phase = "fixed",
                         !.fixed = output.diagnostics[k].message,
                         !.newText = actions[1].edits[1].newText,
                         !.text = applyEdit(output.text, actions[1].edits[1])]
  /\ UNCHANGED <<config, rules, checkerVars, input>>

\* checkFile on the fixed text
EndToEndRecheck ==
  /\ input.op = "endToEnd"
  /\ ~output.done
  /\ output # NoOutput
  /\ output.phase = "fixed"
  /\ output' = [output EXCEPT
                  !.done = TRUE,
                  !.phase = "rechecked",
                  !.diagnostics = NamingConventionRule_check(output.text,
                                    rules[NAME_001].severity)]
  /\ UNCHANGED <<config, rules, checkerVars, input>>

NextEndToEnd ==
  \/ EndToEndCheck
  \/ \E k \in 1..2 : EndToEndFix(k)
  \/ EndToEndRecheck

SpecEndToEnd == InitEndToEnd /\ [][NextEndToEnd]_vars

\* the finding that was fixed came from the global-variable pass
FixedGlobalFinding ==
  /\ output # NoOutput
  /\ output.phase \in {"fixed", "rechecked"}
  /\ Includes(output.fixed, <<"g", "_", "\"">>)

\* C26: the quick fix of a global-variable finding replaces the range with
\* an identifier that starts with g_, and checking the fixed text again
\* gives no global-variable finding.
C26_FixClearsFinding ==
  FixedGlobalFinding =>
    /\ StartsWith(output.newText, <<"g", "_">>)
    /\ output.phase = "rechecked" =>
         \A k \in 1..Len(output.diagnostics) :
           ~Includes(output.diagnostics[k].message, <<"g", "_", "\"">>)

(***************************************************************************)
(* SpecOverlap: checkFile calls that overlap in time.  The save, open and  *)
(* startup handlers each call checkFile without waiting for the calls in   *)
(* progress; a call runs up to the spawn of its analyzer at once and its   *)
(* rest runs when the analyzer closes.                                     *)
(***************************************************************************)
MaxCalls == 2

MaxNow == 1

\* two files of the same base name in different folders, and a third file
OverlapUris ==
  {<<"a", "/", "u", ".", "c">>, <<"b", "/", "u", ".", "c">>, <<"a", "/", "m", ".", "c">>}

\* the text of a document when it is saved: before and after the user
\* renames the variable
OverlapTexts ==
  {<<"i", "n", "t", " ", "x", ";", "\n">>,
   <<"i", "n", "t", " ", "g", "_", "x", ";", "\n">>}

\* path.basename(fileName)
basename(fileName) ==
  LET slashes == {k \in 1..Len(fileName) : fileName[k] = "/"}
      last == IF slashes = {} THEN 0
              ELSE CHOOSE k \in slashes : \A j \in slashes : j <= k
  IN  SubSeq(fileName, last + 1, Len(fileName))

\* path.join(os.tmpdir(), `cubtek_${Date.now()}_${path.basename(fileName)}`)
tempFileName(time, fileName) ==
  <<"/", "t", "m", "p", "/", "c", "u", "b", "t", "e", "k", "_">>
  \o NumToString(time) \o <<"_">> \o basename(fileName)

\* the content a process finds under a name of tmpdir
Missing == <<"E", "N", "O", "E", "N", "T">>

contentOf(dir, name) ==
  IF \E f \in dir : f.name = name
  THEN (CHOOSE f \in dir : f.name = name).content
  ELSE Missing

\* fs.writeFileSync(name, content) and fs.unlinkSync(name) guarded by
\* fs.existsSync(name)
writeFileSync(dir, name, content) ==
  {f \in dir : f.name # name} \cup {[name |-> name, content |-> content]}

unlinkIfExists(dir, name) == {f \in dir : f.name # name}

\* what the analyzer prints for the content it read: an unused variable x
\* where the text declares x, nothing otherwise
analyzerOutput(content) ==
  IF content = <<"i", "n", "t", " ", "x", ";", "\n">>
  THEN TidyLine(1, 5, STR_warning,
                [message |-> UnusedVariable, ruleId |-> ClangUnusedVariable])
  ELSE <<>>

\* the calls started for a document, and the text the document has now: the
\* text of its latest save
callsOf(uri) == {c \in 1..Len(calls) : calls[c].uri = uri}

latestCall(uri) == CHOOSE c \in callsOf(uri) : \A d \in callsOf(uri) : d <= c

liveText(uri) == calls[latestCall(uri)].text

\* diagnosticCollection.set(uri, diagnostics)
setDiagnostics(collection, uri, diagnostics) ==
  {e \in collection : e.uri # uri} \cup {[uri |-> uri, diagnostics |-> diagnostics]}

InitOverlap ==
  /\ config = DefaultConfig
  /\ rules = newRuleRegistry(config)
  /\ CheckerIdle
  /\ input = NoInput
  /\ output = NoOutput

\* a millisecond passes
Tick ==
  /\ now < MaxNow
  /\ now' = now + 1
  /\ UNCHANGED <<config, rules, pc, document, languageId, throwing, tempFile,
                 analyzer, stdout, result, errorMessages, CPP_PATTERNS, project,
                 calls, tmpdir, diagnosticCollection, input, output>>

\* checkFile(document) for a C document that was saved or opened with the
\* given text, up to the await of runClangTidy: the temporary file is
\* written and the analyzer spawned
CheckFile(uri, text) ==
  /\ Len(calls) < MaxCalls
  /\ LET name == tempFileName(now, uri)
     IN  /\ tmpdir' = writeFileSync(tmpdir, name, text)
         /\ calls' = Append(calls, [uri |-> uri, text |-> text, tempFile |-> name,
                                    state |-> "spawned", read |-> <<>>,
                                    result |-> <<>>])
  /\ UNCHANGED <<config, rules, pc, document, languageId, throwing, tempFile,
                 analyzer, stdout, result, errorMessages, CPP_PATTERNS, project,
                 now, diagnosticCollection, input, output>>

\* the analyzer of call c opens the file it was given
AnalyzerReads(c) ==
  /\ c \in 1..Len(calls)
  /\ calls[c].state = "spawned"
  /\ calls' = [calls EXCEPT ![c].state = "read",
                            ![c].read = contentOf(tmpdir, calls[c].tempFile)]
  /\ UNCHANGED <<config, rules, pc, document, languageId, throwing, tempFile,
                 analyzer, stdout, result, errorMessages, CPP_PATTERNS, project,
                 now, tmpdir, diagnosticCollection, input, output>>

\* the analyzer of call c closes: the 'close' handler deletes the temporary
\* file and parses the output, checkDocument runs the rules, and checkFile
\* publishes the list
CheckFileReturns(c) ==
  /\ c \in 1..Len(calls)
  /\ calls[c].state = "read"
  /\ LET uri == calls[c].uri
         diagnostics ==
           parseClangTidyOutput(analyzerOutput(calls[c].read), liveText(uri))
           \o runCustomRuleChecks(rules, liveText(uri), {})
     IN  /\ tmpdir' = unlinkIfExists(tmpdir, calls[c].tempFile)
         /\ calls' = [calls EXCEPT ![c].state = "returned",
                                   ![c].result = diagnostics]
         /\ diagnosticCollection' =
              setDiagnostics(diagnosticCollection, uri, diagnostics)
  /\ UNCHANGED <<config, rules, pc, document, languageId, throwing, tempFile,
                 analyzer, stdout, result, errorMessages, CPP_PATTERNS, project,
                 now, input, output>>

NextOverlap ==
  \/ Tick
  \/ \E uri \in OverlapUris, text \in OverlapTexts : CheckFile(uri, text)
  \/ \E c \in 1..MaxCalls : AnalyzerReads(c)
  \/ \E c \in 1..MaxCalls : CheckFileReturns(c)

SpecOverlap == InitOverlap /\ [][NextOverlap]_vars

\* every call started for the document has returned
AllReturned(uri) ==
  /\ callsOf(uri) # {}
  /\ \A c \in callsOf(uri) : calls[c].state = "returned"

\* no two calls were given the same temporary file
DistinctTempFiles ==
  \A c, d \in 1..Len(calls) : c # d => calls[c].tempFile # calls[d].tempFile

\* C27: once all overlapping checks of a document have finished, the
\* diagnostics published for it are those of the most recently started
\* check (stated for calls that each had a temporary file of their own).
C27_LatestCheckPublished ==
  \A uri \in OverlapUris :
    (AllReturned(uri) /\ DistinctTempFiles) =>
      [uri |-> uri, diagnostics |-> calls[latestCall(uri)].result]
        \in diagnosticCollection

\* C28: the analyzer of every call reads a temporary file that holds that
\* call's document text.
C28_OwnTempFile ==
  \A c \in 1..Len(calls) :
    calls[c].state \in {"read", "returned"} => calls[c].read = calls[c].text

(***************************************************************************)
(* SpecRange: the two rules on declarations and definitions whose          *)
(* identifier also occurs, as text, earlier in the matched declaration.    *)
(***************************************************************************)
\* identifiers of declarations: t occurs in static, extern, const, int and
\* uint8_t, in occurs in int and uint8_t, count occurs in none of them
RangeNames == {<<"t">>, <<"i", "n">>, <<"c", "o", "u", "n", "t">>}

\* return types and badly named functions: y_ occurs in my_t
RangeReturnTypes == {<<"v", "o", "i", "d">>, <<"m", "y", "_", "t">>}

RangeFunctionNames == {<<"B", "a", "d", "_", "n", "a", "m", "e">>, <<"y", "_">>}

\* nameOffset is the offset of the identifier that is declared or defined
RangeInputs ==
  {[op |-> "NamingConventionRule.check",
    text |-> q \o t \o <<" ">> \o n \o e,
    name |-> n,
    nameOffset |-> Len(q) + Len(t) + 1] :
     q \in NamingQualifiers, t \in NamingTypes, n \in RangeNames,
     e \in NamingTerminators}
  \cup
  {[op |-> "NamingConventionRule.check",
    text |-> Definition(t, n, <<"(", ")">>),
    name |-> n,
    nameOffset |-> Len(t) + 1] :
     t \in RangeReturnTypes, n \in RangeFunctionNames}
  \cup
  {[op |-> "FunctionLengthRule.check",
    text |-> t \o <<" ">> \o n \o <<"(", ")", " ", "{", NL>>
             \o Repeat(<<"x", ";", NL>>, maxLines) \o <<"}", NL>>,
    name |-> n,
    nameOffset |-> Len(t) + 1] :
     t \in RangeReturnTypes, n \in RangeFunctionNames}

InitRange ==
  /\ config = DefaultConfig
  /\ rules = newRuleRegistry(config)
  /\ CheckerIdle
  /\ input \in RangeInputs
  /\ output = NoOutput

NextRange == NamingCheck \/ FunctionLengthCheck

SpecRange == InitRange /\ [][NextRange]_vars

\* the range of the declared or defined identifier
IdentifierRange ==
  LET start == PositionAt(input.text, input.nameOffset)
  IN  Range(start, Translate(start, Len(input.name)))

\* C29: the range of every finding lies on one line, starts at the first
\* character of the identifier named in the message and spans the
\* identifier's length.
C29_RangeOnIdentifier ==
  (input \in RangeInputs /\ output.done) =>
    \A k \in 1..Len(output.val) :
      Includes(output.val[k].message, <<"\"">> \o input.name \o <<"\"">>) =>
        /\ output.val[k].range.start.line = output.val[k].range.end.line
        /\ output.val[k].range = IdentifierRange

(***************************************************************************)
(* SpecPaths: parseClangTidyOutput on the output of an analyzer that was   *)
(* given the temporary file of the checked document and reports on that    *)
(* file or on a file it includes.                                          *)
(***************************************************************************)
\* the document a/m.c, checked at millisecond 0
PathsUri == <<"a", "/", "m", ".", "c">>

\* the paths the analyzer names: the temporary file it was given, a header
\* in the workspace and a system header
ReportedPaths ==
  {tempFileName(0, PathsUri),
   <<"a", "/", "m", ".", "h">>,
   <<"/", "u", "s", "r", "/", "i", "n", "c", "l", "u", "d", "e", "/", "s", ".", "h">>}

\* the analyzer's line for a diagnostic in the file of the given path
PathLine(path, L, C, level, f) ==
  path \o <<":">> \o NumToString(L) \o <<":">> \o NumToString(C)
  \o <<":", " ">> \o level \o <<":", " ">> \o f.message
  \o <<" ", "[">> \o f.ruleId \o <<"]">>

PathsInputs ==
  {[op |-> "parseClangTidyOutput", text |-> d,
    stdout |-> PathLine(p, L, C, level, f),
    path |-> p] :
     d \in TidyDocs, p \in ReportedPaths, L \in 1..MaxTidyLine,
     C \in 1..MaxTidyCol, level \in {STR_warning, STR_error}, f \in TidyFindings}

InitPaths ==
  /\ config = DefaultConfig
  /\ rules = newRuleRegistry(config)
  /\ CheckerIdle
  /\ input \in PathsInputs
  /\ output = NoOutput

NextPaths == ParseClangTidyOutput

SpecPaths == InitPaths /\ [][NextPaths]_vars

\* C30: an output line whose path names another file than the one the
\* analyzer was given for the checked document yields no diagnostic on the
\* checked document.
C30_OwnFileOnly ==
  (input \in PathsInputs /\ output.done
   /\ input.path # tempFileName(0, PathsUri)) =>
    output.val = <<>>

====
